---- MODULE Spec2Model ----
(***************************************************************************)
(* Model of the match-history pipeline: the Riot client (bounded           *)
(* concurrency + retry loop, utils/riotClient.js), the JobManager          *)
(* (read-modify-write job records, utils/jobManager.js) and processJob     *)
(* (server.js).                                                            *)
(*                                                                         *)
(* Scheduling: Node runs one continuation at a time; every `await` is a    *)
(* suspension point.  One action of this module is one run-to-suspension   *)
(* step of one async function.                                             *)
(***************************************************************************)
EXTENDS Integers, Sequences, FiniteSets, TLC

(* ---------------------------------------------------------------------- *)
(* Bounds of the model                                                     *)
(* ---------------------------------------------------------------------- *)
NumCallers == 3          \* callers of request() in the open-arrival client model
MaxN == 2                \* largest maxConcurrency tried in the open-arrival model
BurstCalls == 20         \* calls issued at once in the burst scenario
MaxIds == 2              \* match ids returned by the match-id listing
MaxStoreFailures == 1    \* JobStore operations that may fail during one job
MaxLimitChars == 3       \* characters of the limit sent to POST /api/start
MaxGames == 6            \* matches in the file when the duo sample is counted
MaxMatches == 2          \* matches in the file when the averages are computed
MaxTime == 2             \* Date.now() ranges over 0..MaxTime where time is followed
MaxPairMatches == 3      \* matches in the file when the pair buckets are counted
MaxManyPairs == 25       \* matches in the file of many different champion pairs
MaxJobs == 3             \* job records under jobs/ when a duo summary is asked for

(* ---------------------------------------------------------------------- *)
(* Program constants                                                       *)
(* ---------------------------------------------------------------------- *)
DefaultMaxConcurrency == 5   \* createRiotClient({ maxConcurrency = 5 })
MaxAttempts == 7             \* while (attempt < 7)
InitialBackoff == 500        \* let backoff = 500
BackoffCap == 16000          \* Math.min(backoff * 2, 16000)

NaN == -1                    \* Number(undefined), Number("<http-date>")
NoData == "none"

\* req.body.limit is absent, or a JSON value; parseInt sees the value as the
\* text ToString gives (the number 12 as "12", 3.5 as "3.5", null as "null").
Undefined == [given |-> FALSE, text |-> <<>>]
Sent(text) == [given |-> TRUE, text |-> text]

LowSampleThreshold == 5      \* if (matchCount < 5) summary.lowSample = true

\* The responses of POST /api/start: res.json({ jobId }) and
\* res.status(500).json({ code: 'CREATE_JOB_FAILED', ... })
JobIdResponse == "jobId"
CreateJobFailed == "CREATE_JOB_FAILED"

DefaultLimit == 50           \* const { ..., limit = 50 } = req.body;  parseInt(limit) || 50
MinLimit == 1                \* Math.max(..., 1)
MaxLimit == 100              \* Math.min(..., 100)

VARIABLES
  maxConcurrency,  \* createRiotClient parameter
  inFlight,        \* let inFlight = 0
  queue,           \* const queue = []  (resolvers of the blocked callers, FIFO)
  woken,           \* callers whose resolver was called, in the order of the promise jobs
  pc,              \* per call of request(): where its async function is suspended
  attempt,         \* per call: let attempt = 0
  backoff,         \* per call: let backoff = 500
  wait,            \* per call: the argument of the pending sleep(ms), 0 if none
  result,          \* per call: how the promise returned by request() settled
  released,        \* per call: how often its finally block ran (observer)
  traceOn,         \* whether the observers below record (single-request models)
  lastResp,        \* per call: the upstream answer to its latest attempt (observer)
  prevStatus,      \* per call: the status answered to the attempt before (observer)
  store,           \* JobStore: the persisted record of the job (jobs/<id>.json)
  storeFailures,   \* JobStore operations that may still fail
  jpc,             \* processJob: where its main flow is suspended
  ids,             \* processJob: ids.length
  completedMatches,\* processJob: let completedMatches = 0
  mp,              \* processJob: per match id, the state of its matchPromises entry
  updPhase,        \* per updateJob call in progress: idle / reading / writing / finished / failed
  updUpdates,      \* per updateJob call: its `updates` argument
  updMerged,       \* per updateJob call: `updatedJob`, built from what getJob returned
  jobError,        \* processJob: the message of the error caught at line 355
  faults,          \* the steps of processJob that the environment may make fail
  bodyLimit,       \* POST /api/start: req.body.limit
  listCount,       \* the count parameters of the match-id listings requested
  startRes,        \* POST /api/start: the response sent, "none" before
  matchesData,     \* the aggregators' input: the parsed matches file
  duoSummary,      \* what generateDuoSummary returned
  playstyle,       \* what calculatePlaystyleMetrics returned
  teammateStats,   \* calculateFrequentTeammates: teammateStats after its loop
  jobsDir,         \* the job records under jobs/, as getAllJobs lists them
  duoRes           \* GET /api/duo: the response sent

clientVars == <<maxConcurrency, inFlight, queue, woken, pc, attempt, backoff, wait, result, released,
                traceOn, lastResp, prevStatus>>

jobVars == <<store, storeFailures, jpc, ids, completedMatches, mp, updPhase, updUpdates,
             updMerged, jobError>>

startVars == <<bodyLimit, listCount, startRes>>

aggVars == <<matchesData, duoSummary, playstyle, teammateStats, jobsDir, duoRes>>

vars == <<clientVars, jobVars, faults, startVars, aggVars>>

Callers == DOMAIN pc

(* ---------------------------------------------------------------------- *)
(* Upstream responses (the environment)                                    *)
(* status 0 stands for a network-level failure: axios rejects, no response *)
(* ---------------------------------------------------------------------- *)
Response(status, retryAfter, data) == [status |-> status, retryAfter |-> retryAfter, data |-> data]

\* The full environment of one request: every status class; 429 and 5xx with
\* and without a Retry-After header (numeric, empty, absent, or an HTTP date).
NoResponse == Response(-1, "absent", NoData)
NetworkFailure == Response(0, "absent", NoData)

AllResponses ==
  { Response(s, "absent", d) : s \in {200, 404, 403}, d \in {"bodyA", "bodyB"} }
    \cup { Response(429, h, "slow down") : h \in {"absent", "date", "", "2", "30"} }
    \cup { Response(s, h, "oops") : s \in {500, 503}, h \in {"absent", "30"} }
    \cup { NetworkFailure }

\* Math.random() in hundredths: 0 <= r < 1
AllRandoms == {0, 50, 99}

\* A reduced environment for the models with several concurrent callers: one
\* response per status class.
FewResponses ==
  { Response(s, "absent", "bodyA") : s \in {200, 429, 404} } \cup { NetworkFailure }

FewRandoms == {50}

OkResponses == { Response(200, "absent", "bodyA") }

(* ---------------------------------------------------------------------- *)
(* Pure helpers of riotClient.js                                           *)
(* ---------------------------------------------------------------------- *)
\* function jitter(base) { return base * (0.5 + Math.random()); }   (whole ms)
jitter(base, r) == (base * (50 + r)) \div 100

\* Number(res.headers['retry-after']): undefined and an HTTP date give NaN, the
\* empty string gives 0, a decimal string its value.
HeaderNumber(h) ==
  CASE h = "" -> 0
    [] h = "2" -> 2
    [] h = "30" -> 30
    [] OTHER -> NaN

\* (mutation: the Retry-After header is ignored)
ThrottleWaitIgnoresHeader(h, b, r) == jitter(b, r)

\* const wait = isNaN(retryAfter) ? jitter(backoff) : retryAfter * 1000;
ThrottleWait(h, b, r) == IF HeaderNumber(h) = NaN THEN jitter(b, r) ELSE HeaderNumber(h) * 1000

\* (mutation: the doubling is not capped)
NextBackoffUncapped(b) == b * 2

\* backoff = Math.min(backoff * 2, 16000);
NextBackoff(b) == IF b * 2 < BackoffCap THEN b * 2 ELSE BackoffCap

\* (mutation: the gate compares with > instead of >=)
MustBlockOffByOne(n, max) == n > max

\* if (inFlight >= maxConcurrency)  -- the caller must block
MustBlock(n, max) == n >= max

\* (mutation: while (true))
LoopNeverEnds(a) == TRUE

\* while (attempt < 7)
LoopContinues(a) == a < MaxAttempts

\* (mutation: the catch block never rethrows)
CatchNeverGivesUp(a) == FALSE

\* if (attempt >= 7) throw e;   (catch block)
CatchGivesUp(a) == a >= MaxAttempts

\* if (e.response) throw e;  -- the Error built at line 66 and axios' network
\* errors carry no `response` property, so this never rethrows.
HasResponseProperty(status) == FALSE

Is5xx(code) == code >= 500 /\ code < 600

(* Settled values of the promise returned by request() *)
Pending == [tag |-> "pending", code |-> 0, data |-> NoData]
\* (mutation: return res instead of return res.data)
ReturnedWholeResponse(data) == [tag |-> "ok", code |-> 200, data |-> "response object"]

\* if (code === 200) return res.data;
Returned(data) == [tag |-> "ok", code |-> 200, data |-> data]
\* new Error(`Riot request failed (${code})`), err.code = `RIOT_${code}`, err.details = res.data
RiotError(code, data) == [tag |-> "RIOT", code |-> code, data |-> data]
\* the error axios rejected with
NetworkError == [tag |-> "network", code |-> 0, data |-> NoData]
\* new Error('Exhausted retries')
ExhaustedRetries == [tag |-> "Exhausted retries", code |-> 0, data |-> NoData]

(* ---------------------------------------------------------------------- *)
(* withConcurrency                                                         *)
(* ---------------------------------------------------------------------- *)
\* The body of fn() up to its first await: attempt = 0, backoff = 500, loop
\* entered, attempt++ and instance.request() issued.
StartFn(c) ==
  /\ inFlight' = inFlight + 1
  /\ attempt' = [attempt EXCEPT ![c] = 1]
  /\ backoff' = [backoff EXCEPT ![c] = InitialBackoff]
  /\ pc' = [pc EXCEPT ![c] = "inflight"]

\* request(url): the gate of withConcurrency.  Either the caller suspends on
\* `await new Promise(resolve => queue.push(resolve))`, or it passes at once
\* (inFlight++ and fn() run in the same synchronous step).
Gate(c) ==
  /\ IF MustBlock(inFlight, maxConcurrency)
       THEN /\ queue' = Append(queue, c)
            /\ pc' = [pc EXCEPT ![c] = "waiting"]
            /\ UNCHANGED <<inFlight, attempt, backoff>>
       ELSE /\ StartFn(c)
            /\ UNCHANGED queue
  /\ result' = [result EXCEPT ![c] = Pending]
  /\ released' = [released EXCEPT ![c] = 0]
  /\ UNCHANGED <<maxConcurrency, woken, wait, traceOn, lastResp, prevStatus>>

\* A new call of request()
Call(c) == pc[c] = "idle" /\ Gate(c)

\* A call of request() by a caller whose previous call has settled
Request(c) == pc[c] \in {"idle", "done"} /\ Gate(c)

\* A caller whose resolver was called continues after the await: inFlight++
\* without looking at the bound again, then fn().  The continuations are
\* promise jobs: they run in the order in which the resolvers were called.
Resume(c) ==
  /\ pc[c] = "woken"
  /\ woken # <<>>
  /\ c = Head(woken)
  /\ woken' = Tail(woken)
  /\ StartFn(c)
  /\ UNCHANGED <<maxConcurrency, queue, wait, result, released, traceOn, lastResp, prevStatus>>

\* (mutation: the finally block releases the slot and wakes nobody)
FinallyWithoutNext(c, res) ==
  /\ inFlight' = inFlight - 1
  /\ UNCHANGED <<queue, woken>>
  /\ pc' = [pc EXCEPT ![c] = "done"]
  /\ result' = [result EXCEPT ![c] = res]
  /\ released' = [released EXCEPT ![c] = @ + 1]
  /\ wait' = [wait EXCEPT ![c] = 0]

\* (mutation: the finally block takes the resolver pushed last, queue.pop())
FinallyPopsLast(c, res) ==
  /\ inFlight' = inFlight - 1
  /\ IF queue # <<>>
       THEN /\ queue' = SubSeq(queue, 1, Len(queue) - 1)
            /\ woken' = Append(woken, queue[Len(queue)])
            /\ pc' = [pc EXCEPT ![c] = "done", ![queue[Len(queue)]] = "woken"]
       ELSE /\ UNCHANGED <<queue, woken>>
            /\ pc' = [pc EXCEPT ![c] = "done"]
  /\ result' = [result EXCEPT ![c] = res]
  /\ released' = [released EXCEPT ![c] = @ + 1]
  /\ wait' = [wait EXCEPT ![c] = 0]

\* fn() settled: the finally block (inFlight--, queue.shift(), next()) and the
\* settlement of the promise request() returned.
Finally(c, res) ==
  /\ inFlight' = inFlight - 1
  /\ IF queue # <<>>
       THEN /\ queue' = Tail(queue)
            /\ woken' = Append(woken, Head(queue))
            /\ pc' = [pc EXCEPT ![c] = "done", ![Head(queue)] = "woken"]
       ELSE /\ UNCHANGED <<queue, woken>>
            /\ pc' = [pc EXCEPT ![c] = "done"]
  /\ result' = [result EXCEPT ![c] = res]
  /\ released' = [released EXCEPT ![c] = @ + 1]
  /\ wait' = [wait EXCEPT ![c] = 0]

Settle(c, res) == Finally(c, res) /\ UNCHANGED <<maxConcurrency, attempt, backoff, traceOn>>

\* await sleep(ms) inside the loop
Sleep(c, ms) ==
  /\ pc' = [pc EXCEPT ![c] = "sleeping"]
  /\ wait' = [wait EXCEPT ![c] = ms]
  /\ UNCHANGED <<maxConcurrency, inFlight, queue, woken, attempt, backoff, result, released, traceOn>>

(* ---------------------------------------------------------------------- *)
(* request: one upstream attempt answered                                  *)
(* ---------------------------------------------------------------------- *)
\* (mutation: the rethrow of the catch block escapes without the finally block)
CatchWithoutFinally(c, e, status, r) ==
  IF HasResponseProperty(status) \/ CatchGivesUp(attempt[c])
    THEN /\ pc' = [pc EXCEPT ![c] = "done"]
         /\ result' = [result EXCEPT ![c] = e]
         /\ UNCHANGED <<maxConcurrency, inFlight, queue, woken, attempt, backoff, wait, released, traceOn>>
    ELSE Sleep(c, jitter(backoff[c], r))

\* The catch block, entered with error e
Catch(c, e, status, r) ==
  IF HasResponseProperty(status) \/ CatchGivesUp(attempt[c])
    THEN Settle(c, e)
    ELSE Sleep(c, jitter(backoff[c], r))

\* Observers: what the upstream answered to this attempt and to the one before.
Observe(c, resp) ==
  IF traceOn
    THEN /\ lastResp' = [lastResp EXCEPT ![c] = resp]
         /\ prevStatus' = [prevStatus EXCEPT ![c] = lastResp[c].status]
    ELSE UNCHANGED <<lastResp, prevStatus>>

Answer(c, resp, r) ==
  /\ pc[c] = "inflight"
  /\ Observe(c, resp)
  /\ IF resp.status = 0 THEN Catch(c, NetworkError, 0, r)
     ELSE IF resp.status = 200 THEN Settle(c, Returned(resp.data))
     ELSE IF resp.status = 429 THEN Sleep(c, ThrottleWait(resp.retryAfter, backoff[c], r))
     ELSE IF Is5xx(resp.status) THEN Sleep(c, jitter(backoff[c], r))
     ELSE Catch(c, RiotError(resp.status, resp.data), resp.status, r)

\* The sleep timer fired: backoff doubled, then the loop test; a new attempt
\* (attempt++, instance.request()) or `throw new Error('Exhausted retries')`.
AfterSleep(c) ==
  /\ pc[c] = "sleeping"
  /\ IF LoopContinues(attempt[c])
       THEN /\ attempt' = [attempt EXCEPT ![c] = @ + 1]
            /\ backoff' = [backoff EXCEPT ![c] = NextBackoff(@)]
            /\ pc' = [pc EXCEPT ![c] = "inflight"]
            /\ wait' = [wait EXCEPT ![c] = 0]
            /\ UNCHANGED <<maxConcurrency, inFlight, queue, woken, result, released, traceOn>>
       ELSE Settle(c, ExhaustedRetries)
  /\ UNCHANGED <<lastResp, prevStatus>>

(* ---------------------------------------------------------------------- *)
(* Specifications of the client alone                                      *)
(* ---------------------------------------------------------------------- *)
\* No job: the client is exercised alone.
NoJob == [status |-> "none"]

JobOff ==
  /\ store = NoJob
  /\ storeFailures = 0
  /\ jpc = "off"
  /\ ids = 0
  /\ completedMatches = 0
  /\ mp = <<>>
  /\ updPhase = <<>>
  /\ updUpdates = <<>>
  /\ updMerged = <<>>
  /\ jobError = "none"
  /\ faults = {}

\* No request to /api/start and no aggregator call.
StartOff ==
  /\ bodyLimit = Undefined
  /\ listCount = <<>>
  /\ startRes = "none"

NotComputed == [computed |-> FALSE]

AggOff ==
  /\ matchesData = <<>>
  /\ duoSummary = NotComputed
  /\ playstyle = NotComputed
  /\ teammateStats = NotComputed
  /\ jobsDir = <<>>
  /\ duoRes = NotComputed

ClientSetup(callers, maxes, trace) ==
  /\ maxConcurrency \in maxes
  /\ traceOn = trace
  /\ lastResp = [c \in callers |-> NoResponse]
  /\ prevStatus = [c \in callers |-> -1]
  /\ inFlight = 0
  /\ queue = <<>>
  /\ woken = <<>>
  /\ pc = [c \in callers |-> "idle"]
  /\ attempt = [c \in callers |-> 0]
  /\ backoff = [c \in callers |-> InitialBackoff]
  /\ wait = [c \in callers |-> 0]
  /\ result = [c \in callers |-> Pending]
  /\ released = [c \in callers |-> 0]

ClientInit(callers, maxes, trace) ==
  ClientSetup(callers, maxes, trace) /\ JobOff /\ StartOff /\ AggOff

\* Open arrivals: any idle caller may call request() at any time.
Init == ClientInit(1..NumCallers, 1..MaxN, FALSE)

CallAny == UNCHANGED <<jobVars, faults, startVars, aggVars>> /\ \E c \in Callers : Call(c)
ResumeAny == UNCHANGED <<jobVars, faults, startVars, aggVars>> /\ \E c \in Callers : Resume(c)
AnswerFew ==
  UNCHANGED <<jobVars, faults, startVars, aggVars>> /\ \E c \in Callers, resp \in FewResponses, r \in FewRandoms : Answer(c, resp, r)
AfterSleepAny == UNCHANGED <<jobVars, faults, startVars, aggVars>> /\ \E c \in Callers : AfterSleep(c)

Next == CallAny \/ ResumeAny \/ AnswerFew \/ AfterSleepAny

Spec == Init /\ [][Next]_vars

\* One request against the full environment.
InitRetry == ClientInit({1}, {1, DefaultMaxConcurrency}, TRUE)

AnswerAll ==
  UNCHANGED <<jobVars, faults, startVars, aggVars>> /\ \E c \in Callers, resp \in AllResponses, r \in AllRandoms : Answer(c, resp, r)

NextRetry == CallAny \/ AnswerAll \/ AfterSleepAny

SpecRetry == InitRetry /\ [][NextRetry]_vars

\* Each attempt is answered or times out (axios timeout: 15000 ms) and every
\* sleep timer fires.
SpecRetryLive == SpecRetry /\ WF_vars(AnswerAll) /\ WF_vars(AfterSleepAny)

\* The upstream is unreachable: every attempt ends in a network-level failure.
AnswerNetDown == UNCHANGED <<jobVars, faults, startVars, aggVars>> /\ \E c \in Callers : Answer(c, NetworkFailure, 50)

NextNetDown == CallAny \/ ResumeAny \/ AnswerNetDown \/ AfterSleepAny

SpecNetDown == Init /\ [][NextNetDown]_vars

\* The burst: BurstCalls calls of request() issued in one synchronous loop (as
\* ids.map(...) of processJob does) against the default client; nothing else
\* runs before the loop has ended.  The upstream answers 200.
InitBurst == ClientInit(1..BurstCalls, {DefaultMaxConcurrency}, FALSE)

AllIssued == \A c \in Callers : pc[c] # "idle"

BurstIssue ==
  UNCHANGED <<jobVars, faults, startVars, aggVars>> /\ \E c \in Callers : (\A d \in Callers : d < c => pc[d] # "idle") /\ Call(c)

BurstResume == AllIssued /\ ResumeAny

BurstAnswer ==
  UNCHANGED <<jobVars, faults, startVars, aggVars>> /\ AllIssued /\ \E c \in Callers, resp \in OkResponses : Answer(c, resp, 50)

NextBurst == BurstIssue \/ BurstResume \/ BurstAnswer

SpecBurst == InitBurst /\ [][NextBurst]_vars

\* Callers that keep arriving: a caller whose call has settled may call again.
\* Every attempt is answered, with 200, so every request that holds a slot
\* finishes; the continuation of a woken waiter is a promise job and runs.

RequestAgain(c) == UNCHANGED <<jobVars, faults, startVars, aggVars>> /\ Request(c)
ResumeOf(c) == UNCHANGED <<jobVars, faults, startVars, aggVars>> /\ Resume(c)
AnswerDone(c) ==
  UNCHANGED <<jobVars, faults, startVars, aggVars>> /\ \E resp \in OkResponses : Answer(c, resp, 50)

NextArrivals == \E c \in Callers : RequestAgain(c) \/ ResumeOf(c) \/ AnswerDone(c)

SpecArrivals == Init /\ [][NextArrivals]_vars

SpecArrivalsLive ==
  SpecArrivals /\ \A c \in 1..NumCallers : WF_vars(AnswerDone(c)) /\ WF_vars(ResumeOf(c))


(* ====================================================================== *)
(* JobManager (utils/jobManager.js) over the JobStore                      *)
(* ====================================================================== *)
\* createJob: { id, status: 'queued', ...jobData, createdAt, updatedAt }
QueuedJob == [status |-> "queued"]

\* (mutation: the update replaces the record)
MergeClobbers(job, updates) == updates

\* { ...job, ...updates }
Merge(job, updates) ==
  [f \in (DOMAIN job) \cup (DOMAIN updates) |-> IF f \in DOMAIN updates THEN updates[f] ELSE job[f]]

\* The latest Date.now() value a record or an update carries
LatestStamp(r) ==
  LET stamps == { r[f] : f \in DOMAIN r \cap {"createdAt", "updatedAt", "startedAt", "completedAt"} }
  IN  IF stamps = {} THEN 0 ELSE CHOOSE t \in stamps : \A x \in stamps : x <= t

\* Date.now(): not before any value it gave earlier
DateNow(job, updates) ==
  (IF LatestStamp(job) >= LatestStamp(updates) THEN LatestStamp(job) ELSE LatestStamp(updates))..MaxTime

\* const updatedJob = { ...job, ...updates, updatedAt: Date.now() };
updatedJob(job, updates, now) == Merge(Merge(job, updates), [updatedAt |-> now])

\* The records updateJob can build. The records of the specifications that do
\* not follow time carry no time stamps at all.
UpdatedJobs(job, updates) ==
  IF "updatedAt" \in DOMAIN job
    THEN { updatedJob(job, updates, now) : now \in DateNow(job, updates) }
    ELSE { Merge(job, updates) }

\* The updateJob calls that can be in progress: 0 is the one of processJob's
\* main flow, i >= 1 the one of the matchPromises entry of match id i.
Updaters == DOMAIN updPhase

\* updateJob(jobId, updates) called: getJob is pending
StartUpdate(u, updates) ==
  /\ updPhase' = [updPhase EXCEPT ![u] = "reading"]
  /\ updUpdates' = [updUpdates EXCEPT ![u] = updates]

\* (mutation: updateJob takes a missing record as an empty one)
StoreReadUpsert(u) ==
  /\ updPhase[u] = "reading"
  /\ updMerged' = [updMerged EXCEPT ![u] = IF store = NoJob THEN updUpdates[u]
                                                           ELSE Merge(store, updUpdates[u])]
  /\ updPhase' = [updPhase EXCEPT ![u] = "writing"]
  /\ UNCHANGED <<store, storeFailures, jpc, ids, completedMatches, mp, updUpdates, jobError>>
  /\ UNCHANGED <<clientVars, faults, startVars, aggVars>>

\* getJob answered: the record (exists + readJson) or a storage error; a missing
\* record makes updateJob throw 'Job <id> not found'.
StoreRead(u) ==
  /\ updPhase[u] = "reading"
  /\ \/ /\ store # NoJob
        /\ \E updated \in UpdatedJobs(store, updUpdates[u]) :
              updMerged' = [updMerged EXCEPT ![u] = updated]
        /\ updPhase' = [updPhase EXCEPT ![u] = "writing"]
        /\ UNCHANGED storeFailures
     \/ /\ store = NoJob
        /\ updPhase' = [updPhase EXCEPT ![u] = "failed"]
        /\ UNCHANGED <<updMerged, storeFailures>>
     \/ /\ storeFailures > 0
        /\ storeFailures' = storeFailures - 1
        /\ updPhase' = [updPhase EXCEPT ![u] = "failed"]
        /\ UNCHANGED updMerged
  /\ UNCHANGED <<store, jpc, ids, completedMatches, mp, updUpdates, jobError>>
  /\ UNCHANGED <<clientVars, faults, startVars, aggVars>>

\* saveJob answered: the whole record is written, or a storage error
StoreWrite(u) ==
  /\ updPhase[u] = "writing"
  /\ \/ /\ store' = updMerged[u]
        /\ updPhase' = [updPhase EXCEPT ![u] = "finished"]
        /\ UNCHANGED storeFailures
     \/ /\ storeFailures > 0
        /\ storeFailures' = storeFailures - 1
        /\ updPhase' = [updPhase EXCEPT ![u] = "failed"]
        /\ UNCHANGED store
  /\ UNCHANGED <<jpc, ids, completedMatches, mp, updUpdates, updMerged, jobError>>
  /\ UNCHANGED <<clientVars, faults, startVars, aggVars>>

(* ====================================================================== *)
(* POST /api/start and processJob (server.js)                              *)
(* ====================================================================== *)
\* Math.round((completedMatches / ids.length) * 100)
Progress(done, total) == (200 * done + total) \div (2 * total)

\* The steps of processJob that can fail for a reason outside the JobStore:
\* the upstream requests by purpose, and the local steps (fs.mkdir,
\* resolveRiotApiKey, regionMaps, fs.writeFile, generatePlayerSummary).
FaultClasses == {"account", "summoner", "matchIds", "match", "local"}

\* The messages of the errors thrown by the local steps, by position
SetupFailures == {"mkdir failed", "UNSUPPORTED_REGION"}
WriteFailures == {"writeFile failed"}
FinishFailures == {"writeFile failed", "Missing required data files"}

\* An updateJob call of the main flow; the flow waits for it at position next.
MainUpdate(updates, next, err) ==
  /\ StartUpdate(0, updates)
  /\ jpc' = next
  /\ jobError' = err
  /\ UNCHANGED <<store, storeFailures, ids, completedMatches, mp, updMerged>>

\* (mutation: the catch block only logs)
EnterCatchOnlyLogs(msg) ==
  /\ jpc' = "done"
  /\ jobError' = msg
  /\ updPhase' = [updPhase EXCEPT ![0] = "idle"]
  /\ UNCHANGED <<store, storeFailures, ids, completedMatches, mp, updMerged, updUpdates>>

\* (mutation: markError stores a fixed text instead of error.message)
EnterCatchFixedText(msg) == MainUpdate([status |-> "error", error |-> "job failed"], "markError", msg)

\* catch (error) { await jobManager.markError(jobId, error); }
EnterCatch(msg) == MainUpdate([status |-> "error", error |-> msg], "markError", msg)

MainUpdateSettled == updPhase[0] \in {"finished", "failed"}

\* jobManager.createJob(...) then processJob(jobId), not awaited
CreateJob ==
  /\ jpc = "start"
  /\ \/ /\ store' = QueuedJob
        /\ jpc' = "getJob"
        /\ startRes' = JobIdResponse
        /\ UNCHANGED storeFailures
     \/ /\ storeFailures > 0
        /\ storeFailures' = storeFailures - 1
        /\ jpc' = "createFailed"
        /\ startRes' = CreateJobFailed
        /\ UNCHANGED store
  /\ UNCHANGED <<ids, completedMatches, mp, updPhase, updUpdates, updMerged, jobError>>
  /\ UNCHANGED <<clientVars, faults, bodyLimit, listCount, aggVars>>

\* const job = await jobManager.getJob(jobId); ... await jobManager.markRunning(jobId)
JobGetJob ==
  /\ jpc = "getJob"
  /\ \/ /\ store # NoJob
        /\ MainUpdate([status |-> "running"], "markRunning", "none")
     \/ /\ storeFailures > 0
        /\ storeFailures' = storeFailures - 1
        /\ jpc' = "rejected"
        /\ UNCHANGED <<store, ids, completedMatches, mp, updPhase, updUpdates, updMerged, jobError>>
  /\ UNCHANGED <<clientVars, faults, startVars, aggVars>>

\* markRunning settled; updateJob(jobId, { progress: 0, ... })
JobMarkedRunning ==
  /\ jpc = "markRunning"
  /\ MainUpdateSettled
  /\ IF updPhase[0] = "finished"
       THEN MainUpdate([progress |-> 0], "progress0", "none")
       ELSE EnterCatch("store")
  /\ UNCHANGED <<clientVars, faults, startVars, aggVars>>

\* the first progress update settled; fs.mkdir, resolveRiotApiKey,
\* createRiotClient, riot.getAccountByRiotId (regionMaps may throw)
JobProgressReported ==
  /\ jpc = "progress0"
  /\ MainUpdateSettled
  /\ IF updPhase[0] = "finished"
       THEN \/ /\ Request(1)
               /\ jpc' = "account"
               /\ updPhase' = [updPhase EXCEPT ![0] = "idle"]
               /\ UNCHANGED <<store, storeFailures, ids, completedMatches, mp, updUpdates, updMerged, jobError>>
               /\ UNCHANGED <<faults, startVars, aggVars>>
            \/ /\ "local" \in faults
               /\ \E msg \in SetupFailures : EnterCatch(msg)
               /\ UNCHANGED <<clientVars, faults, startVars, aggVars>>
       ELSE /\ EnterCatch("store")
            /\ UNCHANGED <<clientVars, faults, startVars, aggVars>>

\* getAccountByRiotId settled; fs.writeFile(account); riot.getSummonerByPuuid
JobAccountDone ==
  /\ jpc = "account"
  /\ pc[1] = "done"
  /\ IF result[1].tag = "ok"
       THEN \/ /\ Request(1)
               /\ jpc' = "summoner"
               /\ UNCHANGED <<store, storeFailures, ids, completedMatches, mp, updPhase, updUpdates, updMerged, jobError>>
               /\ UNCHANGED <<faults, startVars, aggVars>>
            \/ /\ "local" \in faults
               /\ \E msg \in WriteFailures : EnterCatch(msg)
               /\ UNCHANGED <<clientVars, faults, startVars, aggVars>>
       ELSE /\ EnterCatch(result[1].tag)
            /\ UNCHANGED <<clientVars, faults, startVars, aggVars>>

\* (mutation: no inner try/catch around the summoner fetch)
JobSummonerDoneNoInnerTry ==
  /\ jpc = "summoner"
  /\ pc[1] = "done"
  /\ IF result[1].tag = "ok"
       THEN /\ Request(1)
            /\ jpc' = "matchIds"
            /\ UNCHANGED <<store, storeFailures, ids, completedMatches, mp, updPhase, updUpdates, updMerged, jobError>>
            /\ UNCHANGED <<faults, startVars, aggVars>>
       ELSE /\ EnterCatch(result[1].tag)
            /\ UNCHANGED <<clientVars, faults, startVars, aggVars>>

\* getSummonerByPuuid settled, either way (inner try/catch); riot.getMatchIds
JobSummonerDone ==
  /\ jpc = "summoner"
  /\ pc[1] = "done"
  /\ Request(1)
  /\ jpc' = "matchIds"
  /\ UNCHANGED <<store, storeFailures, ids, completedMatches, mp, updPhase, updUpdates, updMerged, jobError>>
  /\ UNCHANGED <<faults, startVars, aggVars>>

\* getMatchIds settled: ids; let completedMatches = 0; ids.map(...) begins
JobMatchIdsDone ==
  /\ jpc = "matchIds"
  /\ pc[1] = "done"
  /\ IF result[1].tag = "ok"
       THEN /\ \E n \in 0..MaxIds :
                 /\ ids' = n
                 /\ jpc' = IF n = 0 THEN "awaitAll" ELSE "mapping"
            /\ completedMatches' = 0
            /\ pc' = [pc EXCEPT ![1] = "idle"]
            /\ UNCHANGED <<store, storeFailures, mp, updPhase, updUpdates, updMerged, jobError>>
            /\ UNCHANGED <<maxConcurrency, inFlight, queue, woken, attempt, backoff, wait, result, released,
                           traceOn, lastResp, prevStatus>>
            /\ UNCHANGED <<faults, startVars, aggVars>>
       ELSE /\ EnterCatch(result[1].tag)
            /\ UNCHANGED <<clientVars, faults, startVars, aggVars>>

\* ids.map(async (id) => { ... await riot.getMatch(region, id) ...}): one
\* iteration of the synchronous loop; nothing else runs before it has ended.
JobMapNext ==
  /\ jpc = "mapping"
  /\ \E i \in 1..ids :
       /\ mp[i] = "none"
       /\ \A k \in 1..(i - 1) : mp[k] # "none"
       /\ Call(i)
       /\ mp' = [mp EXCEPT ![i] = "fetching"]
       /\ jpc' = IF i = ids THEN "awaitAll" ELSE "mapping"
  /\ UNCHANGED <<store, storeFailures, ids, completedMatches, updPhase, updUpdates, updMerged, jobError>>
  /\ UNCHANGED <<faults, startVars, aggVars>>

\* riot.getMatch settled for id i: completedMatches++ and the progress update,
\* in the try block (a match) or in the catch block (fetch failed).
JobMatchFetched(i) ==
  /\ jpc # "mapping"
  /\ mp[i] = "fetching"
  /\ pc[i] = "done"
  /\ completedMatches' = completedMatches + 1
  /\ StartUpdate(i, [progress |-> Progress(completedMatches + 1, ids)])
  /\ mp' = [mp EXCEPT ![i] = IF result[i].tag = "ok" THEN "updating" ELSE "updatingInCatch"]
  /\ UNCHANGED <<store, storeFailures, jpc, ids, updMerged, jobError>>
  /\ UNCHANGED <<clientVars, faults, startVars, aggVars>>

\* the progress update of entry i settled: return match / return null; an
\* update that failed in the try block lands in the entry's catch block
\* (completedMatches++ and another update); one that failed in the catch block
\* rejects the entry.
JobMatchUpdated(i) ==
  /\ mp[i] \in {"updating", "updatingInCatch"}
  /\ updPhase[i] \in {"finished", "failed"}
  /\ IF updPhase[i] = "finished"
       THEN /\ mp' = [mp EXCEPT ![i] = IF mp[i] = "updating" THEN "match" ELSE "null"]
            /\ updPhase' = [updPhase EXCEPT ![i] = "idle"]
            /\ UNCHANGED <<completedMatches, updUpdates>>
       ELSE IF mp[i] = "updating"
         THEN /\ completedMatches' = completedMatches + 1
              /\ StartUpdate(i, [progress |-> Progress(completedMatches + 1, ids)])
              /\ mp' = [mp EXCEPT ![i] = "updatingInCatch"]
         ELSE /\ mp' = [mp EXCEPT ![i] = "rejected"]
              /\ updPhase' = [updPhase EXCEPT ![i] = "idle"]
              /\ UNCHANGED <<completedMatches, updUpdates>>
  /\ UNCHANGED <<store, storeFailures, jpc, ids, updMerged, jobError>>
  /\ UNCHANGED <<clientVars, faults, startVars, aggVars>>

\* A match body stands for its info.queueId: bodyA is a ranked game (420 or
\* 440), bodyB a game of another queue.
RankedBody == "bodyA"
OtherBody == "bodyB"

\* const matches = matchResults.filter(m => m !== null)
Matches == { i \in 1..ids : mp[i] = "match" }

\* generatePlayerSummary: rankedMatches = matchesData.filter(queueId 420 / 440);
\* meta.sampleSize = rankedMatches.length
PlayerSummary == [sampleSize |-> Cardinality({ i \in Matches : result[i].data = RankedBody })]

\* await Promise.all(matchPromises): rejected by the first rejected entry,
\* fulfilled when all are; then fs.writeFile(matches), generatePlayerSummary,
\* fs.writeFile(summary), jobManager.markComplete
JobAllSettled ==
  /\ jpc = "awaitAll"
  /\ \/ /\ \E i \in 1..ids : mp[i] = "rejected"
        /\ EnterCatch("store")
     \/ /\ \A i \in 1..ids : mp[i] \in {"match", "null"}
        /\ \/ MainUpdate([status |-> "complete", result |-> PlayerSummary], "markComplete", "none")
           \/ /\ "local" \in faults
              /\ \E msg \in FinishFailures : EnterCatch(msg)
  /\ UNCHANGED <<clientVars, faults, startVars, aggVars>>

\* markComplete settled
JobMarkCompleteDone ==
  /\ jpc = "markComplete"
  /\ MainUpdateSettled
  /\ IF updPhase[0] = "finished"
       THEN /\ jpc' = "done"
            /\ updPhase' = [updPhase EXCEPT ![0] = "idle"]
            /\ UNCHANGED <<store, storeFailures, ids, completedMatches, mp, updUpdates, updMerged, jobError>>
       ELSE EnterCatch("store")
  /\ UNCHANGED <<clientVars, faults, startVars, aggVars>>

\* markError settled: processJob returns, or rejects (logged by the caller)
\* (mutation: the route awaits processJob inside its try block, so a rejection
\* of processJob reaches the route's catch block)
JobMarkErrorDoneAwaited ==
  /\ jpc = "markError"
  /\ MainUpdateSettled
  /\ jpc' = IF updPhase[0] = "finished" THEN "done" ELSE "rejected"
  /\ startRes' = IF updPhase[0] = "finished" THEN startRes ELSE CreateJobFailed
  /\ updPhase' = [updPhase EXCEPT ![0] = "idle"]
  /\ UNCHANGED <<store, storeFailures, ids, completedMatches, mp, updUpdates, updMerged, jobError>>
  /\ UNCHANGED <<clientVars, faults, bodyLimit, listCount, aggVars>>

JobMarkErrorDone ==
  /\ jpc = "markError"
  /\ MainUpdateSettled
  /\ jpc' = IF updPhase[0] = "finished" THEN "done" ELSE "rejected"
  /\ updPhase' = [updPhase EXCEPT ![0] = "idle"]
  /\ UNCHANGED <<store, storeFailures, ids, completedMatches, mp, updUpdates, updMerged, jobError>>
  /\ UNCHANGED <<clientVars, faults, startVars, aggVars>>

(* ---------------------------------------------------------------------- *)
(* Specifications of one job                                               *)
(* ---------------------------------------------------------------------- *)
JobSetup(failures, faultSets) ==
  /\ ClientSetup(1..MaxIds, {DefaultMaxConcurrency}, FALSE)
  /\ StartOff
  /\ AggOff
  /\ faults \in faultSets
  /\ store = NoJob
  /\ storeFailures \in failures
  /\ jpc = "start"
  /\ ids = 0
  /\ completedMatches = 0
  /\ mp = [i \in 1..MaxIds |-> "none"]
  /\ updPhase = [u \in 0..MaxIds |-> "idle"]
  /\ updUpdates = [u \in 0..MaxIds |-> <<>>]
  /\ updMerged = [u \in 0..MaxIds |-> <<>>]
  /\ jobError = "none"

InitJob == JobSetup({MaxStoreFailures}, {FaultClasses})

StoreReadAny == \E u \in Updaters : StoreRead(u)
StoreWriteAny == \E u \in Updaters : StoreWrite(u)
JobMatchFetchedAny == \E i \in 1..ids : JobMatchFetched(i)
JobMatchUpdatedAny == \E i \in 1..ids : JobMatchUpdated(i)

\* The client of the job.  It is created with the default maxConcurrency, so
\* with at most DefaultMaxConcurrency ids no call ever blocks at the gate.
\* A request of the job is taken as a whole: its retry loop runs to the attempt
\* that settles it (the first one answered 200, or the 7th one failing), in one
\* step; the loop itself is SpecRetry's subject.
RequestOutcomes ==
  { Returned(RankedBody), Returned(OtherBody), RiotError(404, "bodyA"), NetworkError,
    ExhaustedRetries }

\* The outcomes that processJob can tell apart: of a match fetch, the queue of
\* the body returned and whether it threw (the entry's catch block only logs
\* e.message); of the other requests, the error thrown (its message goes to
\* markError) and whether it returned.
OutcomesOf(class) ==
  IF class = "match"
    THEN { Returned(RankedBody), Returned(OtherBody), RiotError(404, "bodyA") }
    ELSE RequestOutcomes \ { Returned(OtherBody) }

\* What the request in flight is for: the main flow awaits one request at a
\* time, and the match bodies are fetched after the listing.
RequestClass ==
  CASE jpc = "account" -> "account"
    [] jpc = "summoner" -> "summoner"
    [] jpc = "matchIds" -> "matchIds"
    [] OTHER -> "match"

RequestSettles(c, res) ==
  /\ pc[c] = "inflight"
  /\ Finally(c, res)
  /\ attempt' = [attempt EXCEPT ![c] = IF res.tag = "ok" THEN @ ELSE MaxAttempts]
  /\ backoff' = [backoff EXCEPT ![c] = IF res.tag = "ok" THEN @ ELSE BackoffCap]
  /\ UNCHANGED <<maxConcurrency, traceOn, lastResp, prevStatus>>

JobRequestSettles ==
  /\ jpc # "mapping"
  /\ UNCHANGED <<jobVars, faults, startVars, aggVars>>
  /\ \E c \in Callers, res \in OutcomesOf(RequestClass) :
       /\ res.tag = "ok" \/ RequestClass \in faults
       /\ RequestSettles(c, res)

NextJob ==
  \/ CreateJob \/ JobGetJob \/ JobMarkedRunning \/ JobProgressReported
  \/ JobAccountDone \/ JobSummonerDone \/ JobMatchIdsDone \/ JobMapNext
  \/ JobMatchFetchedAny \/ JobMatchUpdatedAny \/ JobAllSettled
  \/ JobMarkCompleteDone \/ JobMarkErrorDone
  \/ StoreReadAny \/ StoreWriteAny
  \/ JobRequestSettles

SpecJob == InitJob /\ [][NextJob]_vars

\* The JobStore never fails; the process keeps running, every upstream attempt
\* is answered or times out, every timer fires, every storage call answers.
\* Either every step may fail, or only the optional ones (the summoner fetch
\* and the match-body fetches).
ToleratedFaults == {"summoner", "match"}

InitJobLive == JobSetup({0}, {FaultClasses, ToleratedFaults})

SpecJobLive == InitJobLive /\ [][NextJob]_vars /\ WF_vars(NextJob)

(* ---------------------------------------------------------------------- *)
(* POST /api/start: the limit of the job                                   *)
(* ---------------------------------------------------------------------- *)
LimitChars == {"0", "1", "5", "9", "-", ".", "a", " "}

\* The sequences over S of length at most n
RECURSIVE SeqsUpTo(_, _)
SeqsUpTo(S, n) ==
  IF n = 0 THEN { <<>> }
           ELSE LET shorter == SeqsUpTo(S, n - 1)
                IN  shorter \cup { Append(t, x) : t \in { y \in shorter : Len(y) = n - 1 }, x \in S }

BodyLimits == { Undefined } \cup { Sent(t) : t \in SeqsUpTo(LimitChars, MaxLimitChars) }

IsDigit(c) == c \in {"0", "1", "5", "9"}

DigitValue(c) == CASE c = "0" -> 0 [] c = "1" -> 1 [] c = "5" -> 5 [] c = "9" -> 9

\* parseInt skips leading white space,
RECURSIVE TrimStart(_)
TrimStart(t) == IF t # <<>> /\ Head(t) = " " THEN TrimStart(Tail(t)) ELSE t

\* reads the digits up to the first character that is not one,
RECURSIVE ParseDigits(_, _, _)
ParseDigits(t, acc, seen) ==
  IF t = <<>> \/ ~IsDigit(Head(t))
    THEN [isNaN |-> ~seen, value |-> acc]
    ELSE ParseDigits(Tail(t), 10 * acc + DigitValue(Head(t)), TRUE)

\* and applies the sign; no digit gives NaN.
parseInt(t) ==
  LET s == TrimStart(t)
      neg == s # <<>> /\ Head(s) = "-"
      d == ParseDigits(IF neg THEN Tail(s) ELSE s, 0, FALSE)
  IN  IF d.isNaN \/ ~neg THEN d ELSE [isNaN |-> FALSE, value |-> 0 - d.value]

\* x || 50: NaN and 0 (and -0) are falsy
OrDefault(x) == IF x.isNaN \/ x.value = 0 THEN DefaultLimit ELSE x.value

MathMax(a, b) == IF a >= b THEN a ELSE b
MathMin(a, b) == IF a <= b THEN a ELSE b

\* (mutation: no upper cap)
cappedLimitNoUpperCap(limit) ==
  MathMax(OrDefault(IF limit.given THEN parseInt(limit.text) ELSE [isNaN |-> FALSE, value |-> DefaultLimit]), MinLimit)

\* const { ..., limit = 50 } = req.body;
\* const cappedLimit = Math.min(Math.max(parseInt(limit) || 50, 1), 100);
cappedLimit(limit) ==
  LET n == IF limit.given THEN parseInt(limit.text) ELSE [isNaN |-> FALSE, value |-> DefaultLimit]
  IN  MathMin(MathMax(OrDefault(n), MinLimit), MaxLimit)

InitStart ==
  /\ ClientSetup({1}, {DefaultMaxConcurrency}, FALSE)
  /\ JobOff
  /\ AggOff
  /\ bodyLimit \in BodyLimits
  /\ listCount = <<>>
  /\ startRes = "none"

\* jobManager.createJob({ gameName, tagLine, region, limit: cappedLimit })
PostStart ==
  /\ store = NoJob
  /\ store' = Merge(QueuedJob, [limit |-> cappedLimit(bodyLimit)])
  /\ startRes' = JobIdResponse
  /\ UNCHANGED <<storeFailures, jpc, ids, completedMatches, mp, updPhase, updUpdates, updMerged,
                 jobError>>
  /\ UNCHANGED <<clientVars, faults, bodyLimit, listCount, aggVars>>

\* processJob: const { ..., limit } = job; riot.getMatchIds(region, puuid, limit)
\* (the url carries count=${count})
ListMatchIds ==
  /\ store # NoJob
  /\ listCount = <<>>
  /\ listCount' = <<store.limit>>
  /\ UNCHANGED <<jobVars, clientVars, faults, bodyLimit, startRes, aggVars>>

NextStart == PostStart \/ ListMatchIds

SpecStart == InitStart /\ [][NextStart]_vars

(* ---------------------------------------------------------------------- *)
(* Specification of the JobManager alone: callers use its operations on    *)
(* one job id, which has a record or never had one                         *)
(* ---------------------------------------------------------------------- *)
\* The `updates` of markRunning, updateJob (progress), markComplete, markError
ManagerUpdates ==
  { [status |-> "running"],
    [progress |-> 50],
    [status |-> "complete", result |-> [sampleSize |-> 0]],
    [status |-> "error", error |-> "boom"] }

InitManager ==
  /\ ClientSetup({1}, {DefaultMaxConcurrency}, FALSE)
  /\ StartOff
  /\ AggOff
  /\ faults = {}
  /\ store \in {NoJob, QueuedJob}
  /\ storeFailures = 0
  /\ jpc = "off"
  /\ ids = 0
  /\ completedMatches = 0
  /\ mp = <<>>
  /\ updPhase = [u \in 1..MaxIds |-> "idle"]
  /\ updUpdates = [u \in 1..MaxIds |-> <<>>]
  /\ updMerged = [u \in 1..MaxIds |-> <<>>]
  /\ jobError = "none"

ManagerFrame ==
  UNCHANGED <<store, storeFailures, jpc, ids, completedMatches, mp, jobError, clientVars, faults,
              startVars, aggVars>>

\* markRunning / updateJob / markComplete / markError called
ManagerUpdate ==
  /\ \E u \in Updaters, updates \in ManagerUpdates :
        /\ updPhase[u] = "idle"
        /\ StartUpdate(u, updates)
  /\ UNCHANGED updMerged
  /\ ManagerFrame

\* getJob called
ManagerGetJob ==
  /\ \E u \in Updaters :
        /\ updPhase[u] = "idle"
        /\ updPhase' = [updPhase EXCEPT ![u] = "getting"]
  /\ UNCHANGED <<updUpdates, updMerged>>
  /\ ManagerFrame

\* getJob answered: if (!(await this.storage.exists(key))) return null;
\* return await this.storage.readJson(key)
ManagerGotJob ==
  /\ \E u \in Updaters :
        /\ updPhase[u] = "getting"
        /\ IF store = NoJob
             THEN /\ updPhase' = [updPhase EXCEPT ![u] = "gotNull"]
                  /\ UNCHANGED updMerged
             ELSE /\ updPhase' = [updPhase EXCEPT ![u] = "gotJob"]
                  /\ updMerged' = [updMerged EXCEPT ![u] = store]
  /\ UNCHANGED updUpdates
  /\ ManagerFrame

\* the caller has its answer (a value or an exception)
ManagerReturn ==
  /\ \E u \in Updaters :
        /\ updPhase[u] \in {"finished", "failed", "gotNull", "gotJob"}
        /\ updPhase' = [updPhase EXCEPT ![u] = "idle"]
        /\ updUpdates' = [updUpdates EXCEPT ![u] = <<>>]
        /\ updMerged' = [updMerged EXCEPT ![u] = <<>>]
  /\ ManagerFrame

NextManager ==
  \/ ManagerUpdate \/ ManagerGetJob \/ ManagerGotJob \/ ManagerReturn
  \/ StoreReadAny \/ StoreWriteAny

SpecManager == InitManager /\ [][NextManager]_vars

(* ---------------------------------------------------------------------- *)
(* JobManager with the whole job record and its time stamps: one caller    *)
(* makes one call after the other                                          *)
(* ---------------------------------------------------------------------- *)
\* createJob: { id: jobId, status: 'queued', ...jobData, createdAt: Date.now(),
\* updatedAt: Date.now() } with jobData = { gameName, tagLine, region, limit }
CreatedJobs ==
  { [id |-> "job1", status |-> "queued", gameName |-> "name", tagLine |-> "tag",
     region |-> "EUW", limit |-> l, createdAt |-> t1, updatedAt |-> t2] :
       l \in {1, DefaultLimit}, t1 \in 0..MaxTime, t2 \in 0..MaxTime }

\* The updates of markRunning, of a progress report, of markComplete and of
\* markError, called at time now
CallerUpdates(now) ==
  { [status |-> "running", startedAt |-> now],
    [progress |-> 50, progressMessage |-> "Fetching matches: 1/2"],
    [status |-> "complete", completedAt |-> now, result |-> [sampleSize |-> 0]],
    [status |-> "error", completedAt |-> now, error |-> "boom"] }

InitRecord ==
  /\ ClientSetup({1}, {DefaultMaxConcurrency}, FALSE)
  /\ StartOff
  /\ AggOff
  /\ faults = {}
  /\ store \in { job \in CreatedJobs : job.createdAt <= job.updatedAt }
  /\ storeFailures = 0
  /\ jpc = "off"
  /\ ids = 0
  /\ completedMatches = 0
  /\ mp = <<>>
  /\ updPhase = [u \in {1} |-> "idle"]
  /\ updUpdates = [u \in {1} |-> <<>>]
  /\ updMerged = [u \in {1} |-> <<>>]
  /\ jobError = "none"

\* markRunning / updateJob / markComplete / markError called
RecordUpdate ==
  /\ \E u \in Updaters, now \in DateNow(store, <<>>) :
        \E updates \in CallerUpdates(now) :
          /\ updPhase[u] = "idle"
          /\ StartUpdate(u, updates)
  /\ UNCHANGED updMerged
  /\ ManagerFrame

NextRecord == RecordUpdate \/ StoreReadAny \/ StoreWriteAny \/ ManagerReturn

SpecRecord == InitRecord /\ [][NextRecord]_vars

(* ====================================================================== *)
(* generateDuoSummary (duoSummaryGenerator.js) and                         *)
(* calculatePlaystyleMetrics (summaryGenerator.js)                         *)
(* ====================================================================== *)
\* An optional upstream field (participant.challenges?.killParticipation,
\* .teamDamagePercentage) is absent or holds a value, here in hundredths:
\* <<>> or <<v>>.  A nullable average is null or a value: <<>> or <<v>>.
Absent == <<>>
Null == <<>>

\* Array.prototype.find found nothing
NoEntry == [puuid |-> "none"]

Entry(puuid, teamId, winner, kp, dmg) ==
  [puuid |-> puuid, teamId |-> teamId, win |-> (teamId = winner),
   killParticipation |-> kp, teamDamagePercentage |-> dmg]

\* A match: info.queueId and info.participants.  A third player is in every
\* match; a and b are the entries of the two players looked at, or NoEntry.
Match(queueId, winner, a, b) ==
  [queueId |-> queueId,
   participants |-> <<Entry("C", 200, winner, <<70>>, <<25>>)>>
                      \o (IF a = NoEntry THEN <<>> ELSE <<a>>)
                      \o (IF b = NoEntry THEN <<>> ELSE <<b>>)]

\* Matches that differ in what decides the duo sample: queue, both present,
\* same team, won
CountPool ==
  { Match(440, 100, Entry("A", 100, 100, Absent, Absent), Entry("B", 100, 100, Absent, Absent)),
    Match(420, 200, Entry("A", 100, 200, Absent, Absent), Entry("B", 100, 200, Absent, Absent)),
    Match(420, 100, Entry("A", 100, 100, Absent, Absent), Entry("B", 200, 100, Absent, Absent)),
    Match(420, 100, Entry("A", 100, 100, Absent, Absent), NoEntry),
    Match(400, 100, Entry("A", 100, 100, Absent, Absent), Entry("B", 100, 100, Absent, Absent)) }

\* Matches that differ in which optional fields each player's entry carries
AvgPool ==
  { Match(420, 100, a, b) :
      a \in { NoEntry } \cup { Entry("A", 100, 100, kp, dmg) : kp \in {Absent, <<40>>, <<90>>},
                                                             dmg \in {Absent, <<20>>} },
      b \in { NoEntry } \cup { Entry("B", 100, 100, kp, dmg) : kp \in {Absent, <<50>>},
                                                             dmg \in {Absent, <<30>>} } }
    \cup { Match(420, 100, Entry("A", 100, 100, <<90>>, <<20>>), Entry("B", 200, 100, <<50>>, <<30>>)),
           Match(400, 100, Entry("A", 100, 100, <<90>>, <<20>>), Entry("B", 100, 100, <<50>>, <<30>>)) }

\* participants.find(p => p.puuid === puuid)
find(participants, puuid) ==
  LET hits == { i \in DOMAIN participants : participants[i].puuid = puuid }
  IN  IF hits = {} THEN NoEntry
                   ELSE participants[CHOOSE i \in hits : \A j \in hits : i <= j]

\* (mutation: no queue filter)
IsRankedQueueAny(queueId) == TRUE

\* queueId === 420 || queueId === 440
IsRankedQueue(queueId) == queueId = 420 \/ queueId = 440

\* matchesData.filter(match => ...)
rankedMatches(data) == SelectSeq(data, LAMBDA m : IsRankedQueue(m.queueId))

\* (mutation: the teams are not compared)
BothPresent(playerA, playerB) == playerA # NoEntry /\ playerB # NoEntry

\* playerA && playerB && playerA.teamId === playerB.teamId
SameTeam(playerA, playerB) ==
  playerA # NoEntry /\ playerB # NoEntry /\ playerA.teamId = playerB.teamId

duoMatches(data, puuidA, puuidB) ==
  SelectSeq(rankedMatches(data),
            LAMBDA m : SameTeam(find(m.participants, puuidA), find(m.participants, puuidB)))

\* Math.round((total / count) * 100) / 100, values in hundredths
Round2(total, count) == (2 * total + count) \div (2 * count)

\* total += field, when the field is not undefined
Plus(total, field) == IF field # Absent THEN total + field[1] ELSE total

\* The role and champion names of the model in the order of Array.prototype.sort
\* (by UTF-16 code units, undefined last); join() writes undefined as ''.
UndefinedName == ""
SortOrder ==
  <<"Ahri", "BOTTOM", "Braum", "JUNGLE", "Jinx", "Lulu", "TOP", "Thresh", "UNKNOWN", UndefinedName>>
Names == { SortOrder[i] : i \in DOMAIN SortOrder }
Rank(x) == CHOOSE i \in DOMAIN SortOrder : SortOrder[i] = x

\* p.teamPosition || 'UNKNOWN'
RoleOf(p) ==
  IF "teamPosition" \in DOMAIN p /\ p.teamPosition # "" THEN p.teamPosition ELSE "UNKNOWN"

\* p.championName
ChampionOf(p) == IF "championName" \in DOMAIN p THEN p.championName ELSE UndefinedName

\* (mutation: the pair is not sorted)
PairKeyUnsorted(x, y) == <<x, "-", y>>

\* [x, y].sort().join('-'): the parts of the joined string
PairKey(x, y) == IF Rank(x) <= Rank(y) THEN <<x, "-", y>> ELSE <<y, "-", x>>

\* key.split('-')
Split(key) == <<key[1], key[3]>>

\* if (!counts[key]) counts[key] = { pair, games: 0, wins: 0 }; counts[key].games++;
\* if (win) counts[key].wins++  (the buckets in the order of their creation)
CountPair(counts, key, pair, win) ==
  IF \E i \in DOMAIN counts : counts[i].key = key
    THEN [i \in DOMAIN counts |->
            IF counts[i].key = key
              THEN [counts[i] EXCEPT !.games = @ + 1, !.wins = @ + (IF win THEN 1 ELSE 0)]
              ELSE counts[i]]
    ELSE Append(counts, [key |-> key, pair |-> pair, games |-> 1,
                         wins |-> IF win THEN 1 ELSE 0])

\* if (!summary.queueBreakdown[queueId]) ...; .games++; if (playerA.win) .wins++
CountQueue(breakdown, queueId, win) ==
  IF queueId \in DOMAIN breakdown
    THEN [breakdown EXCEPT ![queueId] =
            [games |-> @.games + 1, wins |-> @.wins + (IF win THEN 1 ELSE 0)]]
    ELSE breakdown @@ (queueId :> [games |-> 1, wins |-> IF win THEN 1 ELSE 0])

\* .sort((a, b) => b.games - a.games): stable, most games first
RECURSIVE SortByGames(_)
SortByGames(buckets) ==
  IF buckets = <<>> THEN <<>>
  ELSE LET last == buckets[Len(buckets)]
           front == SortByGames(SubSeq(buckets, 1, Len(buckets) - 1))
           k == Cardinality({ i \in DOMAIN front : front[i].games >= last.games })
       IN  SubSeq(front, 1, k) \o <<last>> \o SubSeq(front, k + 1, Len(front))

\* (mutation: the list is not cut)
SliceAll(list, n) == list

\* .slice(0, n)
Slice(list, n) == SubSeq(list, 1, IF Len(list) < n THEN Len(list) ELSE n)

\* championPairsTop: .slice(0, 10)
TopChampionPairs == 10

\* Object.values(counts): { pair, games, wins }
Values(counts) ==
  [i \in DOMAIN counts |->
     [pair |-> counts[i].pair, games |-> counts[i].games, wins |-> counts[i].wins]]

\* for (const match of duoMatches) { ... }
RECURSIVE DuoLoop(_, _, _, _)
DuoLoop(ms, puuidA, puuidB, acc) ==
  IF ms = <<>> THEN acc
  ELSE LET playerA == find(Head(ms).participants, puuidA)
           playerB == find(Head(ms).participants, puuidB)
       IN  DuoLoop(Tail(ms), puuidA, puuidB,
             [wins |-> acc.wins + (IF playerA.win THEN 1 ELSE 0),
              blue |-> acc.blue + (IF playerA.teamId = 100 THEN 1 ELSE 0),
              red |-> acc.red + (IF playerA.teamId = 100 THEN 0 ELSE 1),
              totalKPa |-> Plus(acc.totalKPa, playerA.killParticipation),
              countWithData |-> acc.countWithData
                                  + (IF playerA.killParticipation # Absent THEN 1 ELSE 0),
              totalKPb |-> Plus(acc.totalKPb, playerB.killParticipation),
              totalDamagePctA |-> Plus(acc.totalDamagePctA, playerA.teamDamagePercentage),
              totalDamagePctB |-> Plus(acc.totalDamagePctB, playerB.teamDamagePercentage),
              queueBreakdown |-> CountQueue(acc.queueBreakdown, Head(ms).queueId, playerA.win),
              rolePairCounts |->
                CountPair(acc.rolePairCounts, PairKey(RoleOf(playerA), RoleOf(playerB)),
                          <<RoleOf(playerA), RoleOf(playerB)>>, playerA.win),
              championPairCounts |->
                CountPair(acc.championPairCounts,
                          PairKey(ChampionOf(playerA), ChampionOf(playerB)),
                          <<ChampionOf(playerA), ChampionOf(playerB)>>, playerA.win)])

generateDuoSummary(data, puuidA, puuidB) ==
  LET duo == duoMatches(data, puuidA, puuidB)
      matchCount == Len(duo)
      t == DuoLoop(duo, puuidA, puuidB,
                   [wins |-> 0, blue |-> 0, red |-> 0, totalKPa |-> 0, countWithData |-> 0,
                    totalKPb |-> 0, totalDamagePctA |-> 0, totalDamagePctB |-> 0,
                    queueBreakdown |-> <<>>, rolePairCounts |-> <<>>,
                    championPairCounts |-> <<>>])
      avg(total) == IF t.countWithData > 0 THEN <<Round2(total, t.countWithData)>> ELSE Null
      summary ==
        [sampleSize |-> matchCount,
         wins |-> t.wins,
         queueBreakdown |-> t.queueBreakdown,
         rolePairs |-> SortByGames(Values(t.rolePairCounts)),
         championPairsTop |->
           Slice(SortByGames(Values(t.championPairCounts)), TopChampionPairs),
         synergy |-> [avgKillParticipationA |-> avg(t.totalKPa),
                      avgKillParticipationB |-> avg(t.totalKPb),
                      avgTeamDamagePctA |-> avg(t.totalDamagePctA),
                      avgTeamDamagePctB |-> avg(t.totalDamagePctB)],
         gameTexture |-> [sidePreference |-> [blue |-> t.blue, red |-> t.red]]]
  IN  IF matchCount = 0
        THEN [sampleSize |-> 0, wins |-> 0, message |-> "No matches found playing together"]
        ELSE IF matchCount < LowSampleThreshold
          THEN Merge(summary, [lowSample |-> TRUE])
          ELSE summary

\* (mutation: an average without data is 0)
AverageOrZero(total, count) == IF count > 0 THEN <<Round2(total, count)>> ELSE <<0>>

\* count > 0 ? Math.round((total / count) * 100) / 100 : null
Average(total, count) == IF count > 0 THEN <<Round2(total, count)>> ELSE Null

\* for (const match of matches) { ... if (!participant) continue; ... }
\* counts[key] = (counts[key] || 0) + 1
CountKey(counts, key) ==
  IF key \in DOMAIN counts THEN [counts EXCEPT ![key] = @ + 1] ELSE counts @@ (key :> 1)

\* participants.filter(p => p.teamId === playerTeam && p.puuid !== puuid)
Teammates(participants, player) ==
  SelectSeq(participants, LAMBDA p : p.teamId = player.teamId /\ p.puuid # player.puuid)

\* for (const teammate of teammates) { ... }
RECURSIVE TeammatesLoop(_, _, _, _)
TeammatesLoop(tms, player, isWin, stats) ==
  IF tms = <<>> THEN stats
  ELSE LET teammate == Head(tms)
           old == IF teammate.puuid \in DOMAIN stats
                    THEN stats[teammate.puuid]
                    ELSE [gamesTogether |-> 0, winsTogether |-> 0,
                          rolePairs |-> <<>>, championPairs |-> <<>>]
           new == [gamesTogether |-> old.gamesTogether + 1,
                   winsTogether |-> old.winsTogether + (IF isWin THEN 1 ELSE 0),
                   rolePairs |->
                     CountKey(old.rolePairs, PairKey(RoleOf(player), RoleOf(teammate))),
                   championPairs |->
                     CountKey(old.championPairs,
                              PairKey(ChampionOf(player), ChampionOf(teammate)))]
       IN  TeammatesLoop(Tail(tms), player, isWin,
                         IF teammate.puuid \in DOMAIN stats
                           THEN [stats EXCEPT ![teammate.puuid] = new]
                           ELSE stats @@ (teammate.puuid :> new))

\* calculateFrequentTeammates: for (const match of matches) { ... }
RECURSIVE TeammateLoop(_, _, _)
TeammateLoop(ms, puuid, stats) ==
  IF ms = <<>> THEN stats
  ELSE LET player == find(Head(ms).participants, puuid)
       IN  IF player = NoEntry
             THEN TeammateLoop(Tail(ms), puuid, stats)
             ELSE TeammateLoop(Tail(ms), puuid,
                    TeammatesLoop(Teammates(Head(ms).participants, player), player,
                                  player.win, stats))

RECURSIVE PlayLoop(_, _, _)
PlayLoop(ms, puuid, acc) ==
  IF ms = <<>> THEN acc
  ELSE LET participant == find(Head(ms).participants, puuid)
       IN  IF participant = NoEntry
             THEN PlayLoop(Tail(ms), puuid, acc)
             ELSE PlayLoop(Tail(ms), puuid,
                    [totalKillParticipation |->
                       Plus(acc.totalKillParticipation, participant.killParticipation),
                     countWithKP |-> acc.countWithKP
                                       + (IF participant.killParticipation # Absent THEN 1 ELSE 0),
                     totalTeamDamageShare |->
                       Plus(acc.totalTeamDamageShare, participant.teamDamagePercentage),
                     countWithDamageShare |->
                       acc.countWithDamageShare
                         + (IF participant.teamDamagePercentage # Absent THEN 1 ELSE 0)])

calculatePlaystyleMetrics(matches, puuid) ==
  LET t == PlayLoop(matches, puuid,
                    [totalKillParticipation |-> 0, countWithKP |-> 0,
                     totalTeamDamageShare |-> 0, countWithDamageShare |-> 0])
  IN  [avgKillParticipation |-> Average(t.totalKillParticipation, t.countWithKP),
       avgTeamDamageShare |-> Average(t.totalTeamDamageShare, t.countWithDamageShare),
       totalGames |-> IF Len(matches) = 0 THEN 1 ELSE Len(matches)]

(* ---------------------------------------------------------------------- *)
(* Specifications of the aggregators: a matches file, then the calls       *)
(* ---------------------------------------------------------------------- *)
AggSetup(files) ==
  /\ ClientSetup({1}, {DefaultMaxConcurrency}, FALSE)
  /\ JobOff
  /\ StartOff
  /\ matchesData \in files
  /\ duoSummary = NotComputed
  /\ playstyle = NotComputed
  /\ teammateStats = NotComputed
  /\ jobsDir = <<>>
  /\ duoRes = NotComputed

\* GET /api/duo: generateDuoSummary({ matchesDir, puuidA, puuidB, region })
DuoQuery ==
  /\ duoSummary = NotComputed
  /\ duoSummary' = generateDuoSummary(matchesData, "A", "B")
  /\ UNCHANGED <<clientVars, jobVars, faults, startVars, matchesData, playstyle, teammateStats,
                 jobsDir, duoRes>>

\* generatePlayerSummary: frequentTeammates: calculateFrequentTeammates(rankedMatches,
\* puuid), playstyle: calculatePlaystyleMetrics(rankedMatches, puuid)
PlayerSummarize ==
  /\ playstyle = NotComputed
  /\ playstyle' = calculatePlaystyleMetrics(rankedMatches(matchesData), "A")
  /\ teammateStats' = TeammateLoop(rankedMatches(matchesData), "A", <<>>)
  /\ UNCHANGED <<clientVars, jobVars, faults, startVars, matchesData, duoSummary, jobsDir, duoRes>>

NextAgg == DuoQuery \/ PlayerSummarize

\* Up to MaxGames matches that differ in what decides the duo sample
InitDuoCount == AggSetup(SeqsUpTo(CountPool, MaxGames))

SpecDuoCount == InitDuoCount /\ [][NextAgg]_vars

\* Up to MaxMatches matches that differ in their optional fields
InitAverages == AggSetup(SeqsUpTo(AvgPool, MaxMatches))

SpecAverages == InitAverages /\ [][NextAgg]_vars

\* An entry with its teamPosition and championName
WithPick(entry, role, champion) == entry @@ [teamPosition |-> role, championName |-> champion]

\* A match the two players played on one team
Together(queueId, winner, teamId, roleA, roleB, champA, champB) ==
  Match(queueId, winner,
        WithPick(Entry("A", teamId, winner, Absent, Absent), roleA, champA),
        WithPick(Entry("B", teamId, winner, Absent, Absent), roleB, champB))

\* Matches that differ in queue, side, result, and in the order in which the
\* two players hold a pair of roles or champions ('' is an unassigned role)
PairPool ==
  { Together(420, 100, 100, "TOP", "JUNGLE", "Ahri", "Jinx"),
    Together(420, 200, 100, "JUNGLE", "TOP", "Jinx", "Ahri"),
    Together(440, 200, 200, "JUNGLE", "TOP", "Ahri", "Jinx"),
    Together(440, 100, 200, "TOP", "TOP", "Ahri", "Ahri"),
    Together(420, 100, 100, "", "TOP", "Jinx", "Lulu"),
    Together(420, 100, 100, "TOP", "", "Lulu", "Jinx"),
    Together(400, 100, 100, "TOP", "JUNGLE", "Ahri", "Jinx"),
    Match(420, 100, WithPick(Entry("A", 100, 100, Absent, Absent), "TOP", "Ahri"),
                    WithPick(Entry("B", 200, 100, Absent, Absent), "JUNGLE", "Jinx")) }

Champions == <<"Ahri", "Braum", "Jinx", "Lulu", "Thresh">>

\* n matches that run through the ordered pairs of champions
ManyPairs(n) ==
  [i \in 1..n |->
     Together(420, 100, 100, "TOP", "JUNGLE",
              Champions[(((i - 1) \div Len(Champions)) % Len(Champions)) + 1],
              Champions[((i - 1) % Len(Champions)) + 1])]

InitPairs ==
  AggSetup(SeqsUpTo(PairPool, MaxPairMatches) \cup { ManyPairs(n) : n \in 1..MaxManyPairs })

SpecPairs == InitPairs /\ [][NextAgg]_vars

(* ---------------------------------------------------------------------- *)
(* GET /api/duo/:puuidA/:puuidB over the job records                       *)
(* ---------------------------------------------------------------------- *)
\* The records a job can have left: queued, running, failed, or complete with
\* result.summary.puuid; the region was stored in upper case by POST /api/start
JobKinds ==
  { [status |-> "queued", region |-> "EUW"],
    [status |-> "running", region |-> "EUW"],
    [status |-> "error", region |-> "EUW", completedAt |-> 3, error |-> "boom"],
    [status |-> "complete", region |-> "EUW", completedAt |-> 1, result |-> [summary |-> [puuid |-> "A"]]],
    [status |-> "complete", region |-> "EUW", completedAt |-> 2, result |-> [summary |-> [puuid |-> "A"]]],
    [status |-> "complete", region |-> "NA", completedAt |-> 3, result |-> [summary |-> [puuid |-> "A"]]],
    [status |-> "complete", region |-> "EUW", completedAt |-> 3, result |-> [summary |-> [puuid |-> "C"]]] }

\* The listings: job i of the list has id i
JobLists ==
  { [i \in DOMAIN kinds |-> kinds[i] @@ [id |-> i]] : kinds \in SeqsUpTo(JobKinds, MaxJobs) }

\* The matches file in the directory of job id: id matches of the duo
CachedMatches(id) == ManyPairs(id)

\* region.toUpperCase()
toUpperCase(text) ==
  IF text = "euw" THEN "EUW" ELSE IF text = "na" THEN "NA" ELSE text

QueryRegions == {"euw", "EUW", "na"}

\* (mutation: a failed job is taken as well)
MatchingFinished(job, puuid, region) ==
  /\ job.status \in {"complete", "error"}
  /\ job.region = region
  /\ "result" \in DOMAIN job => job.result.summary.puuid = puuid

\* job.status === 'complete' && job.region === region && job.result?.summary?.puuid === puuid
Matching(job, puuid, region) ==
  /\ job.status = "complete"
  /\ job.region = region
  /\ "result" \in DOMAIN job /\ job.result.summary.puuid = puuid

\* matchingJobs.sort((a, b) => b.completedAt - a.completedAt): stable, latest first
RECURSIVE SortByCompletedAt(_)
SortByCompletedAt(jobs) ==
  IF jobs = <<>> THEN <<>>
  ELSE LET last == jobs[Len(jobs)]
           front == SortByCompletedAt(SubSeq(jobs, 1, Len(jobs) - 1))
           k == Cardinality({ i \in DOMAIN front : front[i].completedAt >= last.completedAt })
       IN  SubSeq(front, 1, k) \o <<last>> \o SubSeq(front, k + 1, Len(front))

\* findRecentJobByPuuid(puuid, region): null is <<>>, a job is <<job>>
findRecentJobByPuuid(jobs, puuid, region) ==
  LET matchingJobs == SelectSeq(jobs, LAMBDA job : Matching(job, puuid, region))
  IN  IF Len(matchingJobs) = 0 THEN <<>> ELSE <<SortByCompletedAt(matchingJobs)[1]>>

InitDuoRoute ==
  /\ ClientSetup({1}, {DefaultMaxConcurrency}, FALSE)
  /\ JobOff
  /\ StartOff
  /\ matchesData = <<>>
  /\ duoSummary = NotComputed
  /\ playstyle = NotComputed
  /\ teammateStats = NotComputed
  /\ jobsDir \in JobLists
  /\ duoRes = NotComputed

DuoRouteFrame ==
  UNCHANGED <<clientVars, jobVars, faults, startVars, playstyle, teammateStats, jobsDir>>

\* GET /api/duo/A/B without ?region=
GetDuoWithoutRegion ==
  /\ duoRes = NotComputed
  /\ duoRes' = [status |-> 400, code |-> "BAD_REQUEST"]
  /\ UNCHANGED <<matchesData, duoSummary>>
  /\ DuoRouteFrame

\* GET /api/duo/:puuidA/B?region=...: getAllJobs gives the records, or [] when
\* the listing fails; the matches file of the job found is read, or the read
\* fails.
GetDuo ==
  /\ duoRes = NotComputed
  /\ \E puuidA \in {"A", "Z"}, region \in QueryRegions, listed \in {jobsDir, <<>>},
        readable \in BOOLEAN :
        LET recentJob == findRecentJobByPuuid(listed, puuidA, toUpperCase(region))
        IN  IF recentJob = <<>>
              THEN /\ duoRes' = [status |-> 404, code |-> "NOT_FOUND", puuidA |-> puuidA,
                                 region |-> region]
                   /\ UNCHANGED <<matchesData, duoSummary>>
              ELSE IF readable
                THEN /\ matchesData' = CachedMatches(recentJob[1].id)
                     /\ duoSummary' = generateDuoSummary(matchesData', puuidA, "B")
                     /\ duoRes' = [status |-> 200, body |-> duoSummary', puuidA |-> puuidA,
                                   region |-> region, used |-> recentJob[1]]
                ELSE /\ duoRes' = [status |-> 500, code |-> "DUO_FAILED", puuidA |-> puuidA,
                                   region |-> region, used |-> recentJob[1]]
                     /\ UNCHANGED <<matchesData, duoSummary>>
  /\ DuoRouteFrame

NextDuoRoute == GetDuoWithoutRegion \/ GetDuo

SpecDuoRoute == InitDuoRoute /\ [][NextDuoRoute]_vars

(* ====================================================================== *)
(* Properties of the client                                                *)
(* ====================================================================== *)
PastGate == { c \in Callers : pc[c] \in {"inflight", "sleeping"} }
Outstanding == { c \in Callers : pc[c] = "inflight" }
IsPermanent(status) == status > 0 /\ status # 200 /\ status # 429 /\ ~Is5xx(status)

\* C1: for every arrival pattern of callers of request(), the number of requests
\* past the concurrency gate (inFlight) is at most the configured maximum.
C1_InFlightAtMostN == inFlight <= maxConcurrency

\* C2: 20 calls issued in one burst against a client with maxConcurrency 5 never
\* have more than 5 upstream requests outstanding, whatever the completion order.
C2_BurstAtMostFive ==
  /\ Cardinality(Outstanding) <= DefaultMaxConcurrency
  /\ inFlight <= DefaultMaxConcurrency

\* The bound is reached while callers still wait and others have completed.
C2_Witness ==
  /\ Cardinality(Outstanding) = DefaultMaxConcurrency
  /\ queue # <<>>
  /\ \E c \in Callers : pc[c] = "done"
  /\ \E c \in Callers : pc[c] = "inflight" /\ c > DefaultMaxConcurrency

\* C3: an attempt answered with a status other than 200, 429 or 5xx makes the
\* request fail on that attempt with the RIOT_<status> error carrying the body;
\* no further attempt is made.
C3_PermanentStatusNotRetried ==
  \A c \in Callers :
    IsPermanent(lastResp[c].status) =>
      /\ pc[c] = "done"
      /\ result[c].tag = "RIOT"
      /\ result[c].code = lastResp[c].status
      /\ result[c].data = lastResp[c].data

\* C4: whatever the upstream answers, a request makes at most 7 attempts and then
\* finishes (returns or fails); there is no 8th attempt and no endless loop.
C4_AtMostSevenAttemptsThenDone ==
  /\ [](attempt[1] <= 7)
  /\ (pc[1] # "idle") ~> (pc[1] = "done")

\* A request that used all 7 attempts and finished.
C4_Witness == pc[1] = "done" /\ attempt[1] = 7 /\ result[1].tag = "Exhausted retries"

\* C5: every request that passed the gate releases its slot exactly once on every
\* exit path; inFlight counts exactly the requests past the gate, and is 0 with
\* an empty wait queue once all issued requests have finished.
C5_SlotReleasedExactlyOnce ==
  /\ \A c \in Callers : released[c] = (IF pc[c] = "done" THEN 1 ELSE 0)
  /\ inFlight = Cardinality(PastGate)
  /\ (\A c \in Callers : pc[c] \in {"idle", "done"}) => inFlight = 0 /\ queue = <<>>

\* All requests have finished, by success, by a permanent failure and by
\* exhausted retries.
C5_Witness ==
  /\ \A c \in Callers : pc[c] = "done"
  /\ \E c \in Callers : result[c].tag = "ok"
  /\ \E c \in Callers : result[c].tag = "RIOT"
  /\ \E c \in Callers : result[c].tag = "Exhausted retries"

\* C6 (as stated): when every attempt ends in a network-level failure, the
\* request fails with the generic 'Exhausted retries' error.
C6_NetworkFailuresGiveExhausted ==
  \A c \in Callers : pc[c] = "done" => result[c] = ExhaustedRetries

\* C6 (amended): when every attempt ends in a network-level failure, the request
\* fails after its 7th attempt with the network error of that attempt.
C6_NetworkFailuresRethrown ==
  \A c \in Callers : pc[c] = "done" => result[c].tag = "network" /\ attempt[c] = 7

C6_Witness == \E c \in Callers : pc[c] = "done" /\ attempt[c] = 7

\* C7: after a 429 with a numeric Retry-After of s seconds the wait is s*1000 ms
\* whatever the backoff; after a 5xx the wait is the jittered backoff, whatever
\* the Retry-After header says.
C7_RetryAfterHonoured ==
  \A c \in Callers :
    pc[c] = "sleeping" =>
      /\ (lastResp[c].status = 429 /\ lastResp[c].retryAfter = "2" => wait[c] = 2000)
      /\ (lastResp[c].status = 429 /\ lastResp[c].retryAfter = "30" => wait[c] = 30000)
      /\ (Is5xx(lastResp[c].status) => 2 * wait[c] >= backoff[c] /\ 2 * wait[c] < 3 * backoff[c])

\* A 429 with Retry-After: 2 on a later attempt (the backoff has grown).
C7_Witness ==
  \E c \in Callers :
    /\ pc[c] = "sleeping" /\ lastResp[c].status = 429 /\ lastResp[c].retryAfter = "2"
    /\ backoff[c] = 4000 /\ wait[c] = 2000

\* C8: a request returns the body of the first 200 response and makes no attempt
\* after it.
C8_First200Returned ==
  \A c \in Callers :
    /\ lastResp[c].status = 200 =>
         pc[c] = "done" /\ result[c].tag = "ok" /\ result[c].data = lastResp[c].data
    /\ prevStatus[c] # 200
    /\ result[c].tag = "ok" => lastResp[c].status = 200

\* 429 on attempt 1, 200 on attempt 2: the 200 body after exactly 2 attempts.
C8_Witness ==
  /\ pc[1] = "done" /\ attempt[1] = 2
  /\ prevStatus[1] = 429 /\ lastResp[1] = Response(200, "absent", "bodyB")
  /\ result[1].tag = "ok" /\ result[1].data = "bodyB"

(* ====================================================================== *)
(* Properties of the job                                                   *)
(* ====================================================================== *)
Terminal == {"complete", "error"}

StatusSteps ==
  { <<"none", "queued">>, <<"queued", "running">>, <<"running", "complete">>, <<"running", "error">> }

\* C9: the persisted status of a job only changes along queued -> running ->
\* complete or queued -> running -> error: it never goes back, never skips
\* running, and never changes again once it is complete or error.
C9_StatusMonotonic ==
  [][store'.status # store.status => <<store.status, store'.status>> \in StatusSteps]_vars

\* C9, its last clause: once the persisted status is complete or error it never
\* changes again.
C9_TerminalStatusFinal ==
  [][store.status \in Terminal => store'.status = store.status]_vars

\* C10: with a JobStore that does not fail and under fairness, every job whose
\* processJob started eventually has the persisted status complete or error.
C10_JobReachesTerminalStatus ==
  (jpc = "getJob") ~> (store.status \in Terminal)

\* A job that completed although one of its match fetches failed.
C10_Witness ==
  /\ jpc = "done" /\ store.status = "complete"
  /\ \E i \in 1..ids : mp[i] = "null"
  /\ \E i \in 1..ids : mp[i] = "match"

FailedFetches == { i \in 1..ids : mp[i] = "null" }

\* C12: when only the summoner fetch and match-body fetches fail, the job is
\* never in error, it reaches complete, and its sample size is at most the
\* number of ids listed minus the number of failed fetches.
C12_ToleratedFailuresStillComplete ==
  /\ [](faults = ToleratedFaults => store.status # "error")
  /\ [](faults = ToleratedFaults /\ store.status = "complete"
         => store.result.sampleSize <= ids - Cardinality(FailedFetches))
  /\ ((faults = ToleratedFaults /\ jpc = "getJob") ~> (store.status = "complete"))

C12_Witness ==
  /\ faults = ToleratedFaults
  /\ store.status = "complete"
  /\ ids = MaxIds
  /\ Cardinality(FailedFetches) = 1
  /\ store.result.sampleSize = ids - 1

\* C13: while the match bodies are fetched concurrently, the progress stored
\* in the job record never decreases from one write to the next.
C13_ProgressNeverDecreases ==
  [][("progress" \in DOMAIN store /\ "progress" \in DOMAIN store')
       => store'.progress >= store.progress]_vars

\* C14: on a job id that never had a record, getJob returns null without
\* throwing, and updateJob, markRunning, markComplete and markError fail with
\* 'Job <id> not found' and write nothing: the store still holds no record.
C14_UnknownJobUntouched ==
  [][store = NoJob =>
       /\ store' = NoJob
       /\ \A u \in Updaters :
            /\ (updPhase[u] = "getting" /\ updPhase'[u] # "getting") => updPhase'[u] = "gotNull"
            /\ (updPhase[u] = "reading" /\ updPhase'[u] # "reading") => updPhase'[u] = "failed"]_vars

C14_Witness ==
  /\ store = NoJob
  /\ \E u, v \in Updaters :
        /\ updPhase[u] = "failed"
        /\ updUpdates[u] = [status |-> "error", error |-> "boom"]
        /\ updPhase[v] = "gotNull"

\* The decimal text of a natural number, as a JSON client writes it
RECURSIVE Decimal(_)
Decimal(n) ==
  LET d == CHOOSE c \in {"0", "1", "5", "9"} : DigitValue(c) = n % 10
  IN  IF n < 10 THEN <<d>> ELSE Append(Decimal(n \div 10), d)

WritableInDigits(n) == \A k \in {n % 10, (n \div 10) % 10, n \div 100} : k \in {0, 1, 5, 9}

\* C15: whatever limit the caller sends, the limit stored in the job and used
\* as the count of the match-id listing is an integer in 1..100, and it is the
\* requested value when that is an integer in 1..100.
C15_LimitCappedTo1To100 ==
  store # NoJob =>
    /\ store.limit \in 1..100
    /\ listCount # <<>> => listCount = <<store.limit>>
    /\ \A n \in 1..100 :
         (WritableInDigits(n) /\ bodyLimit = Sent(Decimal(n))) => store.limit = n

C15_Witness ==
  /\ bodyLimit = Sent(<<"1", "5", "0">>)
  /\ listCount = <<100>>

(* ====================================================================== *)
(* Properties of the aggregators                                           *)
(* ====================================================================== *)
\* The entries of a player in a match
EntriesOf(m, puuid) == { m.participants[i] : i \in { j \in DOMAIN m.participants :
                                                      m.participants[j].puuid = puuid } }

\* The matches of the file that are ranked and have A and B on one team
DuoIndices ==
  { i \in DOMAIN matchesData :
      /\ matchesData[i].queueId \in {420, 440}
      /\ \E a \in EntriesOf(matchesData[i], "A"), b \in EntriesOf(matchesData[i], "B") :
           a.teamId = b.teamId }

DuoWonIndices ==
  { i \in DuoIndices : \E a \in EntriesOf(matchesData[i], "A") : a.win = TRUE }

\* C16: when no ranked match has A and B on the same team, generateDuoSummary
\* returns sampleSize 0, wins 0 and a message, and no synergy or gameTexture
\* averages.
C16_NoDuoMatchGivesEmptySummary ==
  (duoSummary # NotComputed /\ DuoIndices = {}) =>
    /\ duoSummary.sampleSize = 0
    /\ duoSummary.wins = 0
    /\ "message" \in DOMAIN duoSummary
    /\ "synergy" \notin DOMAIN duoSummary
    /\ "gameTexture" \notin DOMAIN duoSummary

\* A file with ranked games on opposite teams and an unranked game together
C16_Witness ==
  /\ duoSummary # NotComputed
  /\ DuoIndices = {}
  /\ \E i, j \in DOMAIN matchesData :
        /\ matchesData[i].queueId = 400
        /\ matchesData[j].queueId = 420
        /\ EntriesOf(matchesData[j], "B") # {}

\* C17: sampleSize is the number of ranked matches in which A and B have an
\* entry with the same teamId, and wins the number of those that A won.
C17_SampleSizeAndWins ==
  duoSummary # NotComputed =>
    /\ duoSummary.sampleSize = Cardinality(DuoIndices)
    /\ duoSummary.wins = Cardinality(DuoWonIndices)

\* Together in 3 of the matches, 2 of them won, next to other matches
C17_Witness ==
  /\ duoSummary # NotComputed
  /\ Len(matchesData) = MaxGames
  /\ duoSummary.sampleSize = 3
  /\ duoSummary.wins = 2

\* summary.lowSample === true
LowSampleFlag(summary) == "lowSample" \in DOMAIN summary /\ summary.lowSample = TRUE

\* C18: for every duo sample size n, 0 included, the lowSample flag of the
\* returned summary is true iff n < 5.
C18_LowSampleIffBelowFive ==
  duoSummary # NotComputed => (LowSampleFlag(duoSummary) <=> duoSummary.sampleSize < 5)

\* The matches among idx in which the player's entry carries the field
Supplied(idx, puuid, field) ==
  { i \in idx : \E e \in EntriesOf(matchesData[i], puuid) : e[field] # Absent }

ValueAt(i, puuid, field) == (CHOOSE e \in EntriesOf(matchesData[i], puuid) : TRUE)[field][1]

RECURSIVE SumOver(_, _, _)
SumOver(idx, puuid, field) ==
  IF idx = {} THEN 0
  ELSE LET i == CHOOSE x \in idx : TRUE
       IN  ValueAt(i, puuid, field) + SumOver(idx \ {i}, puuid, field)

\* The mean (to two decimals) of the field over the matches of idx that supply
\* it for the player; null when none does
MeanOver(idx, puuid, field) ==
  LET with == Supplied(idx, puuid, field)
  IN  IF with = {} THEN Null ELSE <<Round2(SumOver(with, puuid, field), Cardinality(with))>>

\* C19: each per-player optional average of the duo summary is the mean of
\* that field over exactly the duo matches that supply it for that player,
\* and null iff none does, whatever the other fields and the other player.
C19_DuoAveragesPerPlayerAndField ==
  (duoSummary # NotComputed /\ duoSummary.sampleSize > 0) =>
    /\ duoSummary.synergy.avgKillParticipationA = MeanOver(DuoIndices, "A", "killParticipation")
    /\ duoSummary.synergy.avgKillParticipationB = MeanOver(DuoIndices, "B", "killParticipation")
    /\ duoSummary.synergy.avgTeamDamagePctA = MeanOver(DuoIndices, "A", "teamDamagePercentage")
    /\ duoSummary.synergy.avgTeamDamagePctB = MeanOver(DuoIndices, "B", "teamDamagePercentage")

RankedIndices == { i \in DOMAIN matchesData : matchesData[i].queueId \in {420, 440} }

\* C20: in the player summary avgKillParticipation, and likewise
\* avgTeamDamageShare, is null iff no filtered match supplies the field for
\* the player, and otherwise the mean over exactly the matches that supply it.
C20_PlayerAveragesNullIffNoData ==
  playstyle # NotComputed =>
    /\ playstyle.avgKillParticipation = MeanOver(RankedIndices, "A", "killParticipation")
    /\ playstyle.avgTeamDamageShare = MeanOver(RankedIndices, "A", "teamDamagePercentage")

\* Two ranked matches of the player, one with kill participation, none with
\* the damage share
C20_Witness ==
  /\ playstyle # NotComputed
  /\ Cardinality({ i \in RankedIndices : EntriesOf(matchesData[i], "A") # {} }) = 2
  /\ Cardinality(Supplied(RankedIndices, "A", "killParticipation")) = 1
  /\ playstyle.avgKillParticipation = <<40>>
  /\ playstyle.avgTeamDamageShare = Null

(* ====================================================================== *)
(* Further properties of the client                                        *)
(* ====================================================================== *)
\* The callers suspended at the gate, in the order in which they blocked
Suspended == woken \o queue

Before(d, c, seq) ==
  \E i, j \in DOMAIN seq : i < j /\ seq[i] = d /\ seq[j] = c

\* C23: the callers that block at the bound are resumed in the order in which
\* they blocked: a caller never starts its upstream request while one that
\* blocked before it is still suspended.
C23_WaitersResumeInOrder ==
  [][/\ \A c \in Callers :
          (pc[c] # "waiting" /\ pc'[c] = "waiting") => Suspended' = Append(Suspended, c)
     /\ \A c, d \in Callers :
          Before(d, c, Suspended) =>
            /\ ~(pc'[c] = "inflight" /\ pc'[d] \in {"waiting", "woken"})
            /\ ~Before(c, d, Suspended')]_vars

\* One waiter has been woken while another, blocked after it, still waits
C23_Witness ==
  /\ Len(woken) = 1
  /\ Len(queue) = 1
  /\ \E c \in Callers : pc[c] = "done"

\* let backoff = 500, then backoff = Math.min(backoff * 2, 16000) after every
\* retried attempt: the base in force during attempt n
RECURSIVE BackoffAt(_)
BackoffAt(n) == IF n <= 1 THEN InitialBackoff ELSE NextBackoff(BackoffAt(n - 1))

\* The attempt was answered in a way that sleeps for jitter(backoff)
JitteredWait(resp) ==
  \/ resp.status = 429 /\ HeaderNumber(resp.retryAfter) = NaN
  \/ Is5xx(resp.status)
  \/ resp.status = 0

\* C24: for a 429 without Retry-After, a 5xx or a network failure the wait w
\* before the next attempt satisfies 0.5*b <= w <= 1.0*b, where the base b starts
\* at 500 ms, is doubled after every retried attempt (also after a 429 that used
\* Retry-After) and never exceeds 16000 ms.
C24_WaitBetweenHalfAndFullBase ==
  \A c \in Callers :
    pc[c] = "sleeping" =>
      /\ backoff[c] = BackoffAt(attempt[c])
      /\ backoff[c] <= BackoffCap
      /\ JitteredWait(lastResp[c]) => 2 * wait[c] >= backoff[c] /\ wait[c] <= backoff[c]

\* What the code does: the same base, and a wait from half the base up to, but
\* less than, one and a half times the base.
C24_WaitBetweenHalfAndThreeHalvesBase ==
  \A c \in Callers :
    pc[c] = "sleeping" =>
      /\ backoff[c] = BackoffAt(attempt[c])
      /\ backoff[c] <= BackoffCap
      /\ JitteredWait(lastResp[c]) => 2 * wait[c] >= backoff[c] /\ 2 * wait[c] < 3 * backoff[c]

\* A wait longer than the base, drawn when the base has reached its cap
C24_Witness ==
  \E c \in Callers :
    /\ pc[c] = "sleeping" /\ JitteredWait(lastResp[c])
    /\ backoff[c] = BackoffCap /\ wait[c] > backoff[c]

(* ====================================================================== *)
(* Further properties of JobManager and processJob                         *)
(* ====================================================================== *)
\* An updateJob call that has read the record and has not yet written it
BetweenReadAndWrite(u) == updPhase[u] = "writing"

\* C25: while a job is processed, no update of the job is started while another
\* update of the same job is between its read and its write, and every write
\* stores the record as it is at the time of the write with the caller's fields
\* merged in (no update is lost).
C25_UpdatesOfOneJobDoNotOverlap ==
  [][\A u \in Updaters \cap DOMAIN updPhase' :
       /\ (updPhase[u] # "reading" /\ updPhase'[u] = "reading")
            => \A v \in Updaters \ {u} : ~BetweenReadAndWrite(v)
       /\ (updPhase[u] = "writing" /\ updPhase'[u] = "finished")
            => store' = Merge(store, updUpdates[u])]_vars

\* C26: updateJob on an existing job, with no other update of the job in
\* flight, changes only the fields named in updates plus updatedAt: the written
\* record has the fields of the stored one and those of updates, every field
\* named in updates has the value given there, and every other field except
\* updatedAt has the value it had before the call.
C26_UpdateChangesOnlyNamedFields ==
  [][\A u \in Updaters :
       (updPhase[u] = "writing" /\ updPhase'[u] = "finished") =>
          /\ DOMAIN store' = DOMAIN store \cup DOMAIN updUpdates[u] \cup {"updatedAt"}
          /\ \A f \in DOMAIN updUpdates[u] : store'[f] = updUpdates[u][f]
          /\ \A f \in DOMAIN store \ (DOMAIN updUpdates[u] \cup {"updatedAt"}) :
                store'[f] = store[f]
          /\ store'.updatedAt >= store.updatedAt]_vars

\* A progress report was written into a record that was marked running before:
\* the record keeps its startedAt and its status.
C26_Witness ==
  /\ updPhase[1] = "finished"
  /\ "progress" \in DOMAIN updUpdates[1]
  /\ "startedAt" \in DOMAIN store
  /\ "progress" \in DOMAIN store
  /\ store.status = "running"

\* C27: the create-job call answers with the job id without waiting for the
\* processing: the answer is sent in the step that created the job, while the
\* job is queued; it is never changed afterwards; and no failure inside
\* processJob, a failed error transition included, turns it into a failure
\* answer.
C27_AnswerIndependentOfProcessing ==
  [][/\ (startRes = "none" /\ startRes' # "none") =>
          /\ jpc = "start"
          /\ startRes' = JobIdResponse <=> (store' # NoJob /\ store'.status = "queued")
          /\ startRes' = CreateJobFailed <=> jpc' = "createFailed"
     /\ startRes # "none" => startRes' = startRes
     /\ jpc' \notin {"start", "off"} => startRes' # "none"
     /\ (jpc' = "rejected" \/ jobError' # "none") => startRes' = JobIdResponse]_vars

\* The job id was answered and processJob later rejected: its error transition
\* failed too.
C27_Witness ==
  /\ startRes = JobIdResponse
  /\ jpc = "rejected"
  /\ jobError # "none"

\* C28: if every request that holds a slot eventually finishes and every woken
\* continuation runs, every caller blocked in the wait queue eventually passes
\* the gate and starts its request, also when new callers keep arriving.
C28_WaitersEventuallyPass ==
  \A c \in 1..NumCallers : (pc[c] = "waiting") ~> (pc[c] = "inflight")

\* Two callers wait behind the bound while the third holds the only slot.
C28_Witness ==
  /\ Len(queue) = 2
  /\ \E c \in Callers : pc[c] = "inflight" /\ released[c] = 0 /\ inFlight = 1
  /\ maxConcurrency = 1

(* ====================================================================== *)
(* Further properties of the aggregators                                   *)
(* ====================================================================== *)
\* buildProfile: profile.recentWinrate = { matches: rankedMatches.length, wins }
recentWinrate(ranked, puuid) ==
  [matches |-> Len(ranked),
   wins |-> Len(SelectSeq(ranked, LAMBDA m : find(m.participants, puuid) # NoEntry
                                            /\ find(m.participants, puuid).win))]

\* generatePlayerSummary: meta: { ..., sampleSize: rankedMatches.length }
meta(ranked) == [sampleSize |-> Len(ranked)]

\* C30: for every filtered match set, the empty one included, the player
\* summary's playstyle.totalGames is the number of filtered matches: it equals
\* meta.sampleSize and profile.recentWinrate.matches.
C30_TotalGamesIsSampleSize ==
  playstyle # NotComputed =>
    /\ playstyle.totalGames = Len(rankedMatches(matchesData))
    /\ playstyle.totalGames = meta(rankedMatches(matchesData)).sampleSize
    /\ playstyle.totalGames = recentWinrate(rankedMatches(matchesData), "A").matches

\* The duo matches of the file, and those in which the two players hold the
\* roles, or the champions, x and y in either order
Duo == duoMatches(matchesData, "A", "B")

HoldRoles(m, p, q, x, y) ==
  LET a == RoleOf(find(m.participants, p))
      b == RoleOf(find(m.participants, q))
  IN  (a = x /\ b = y) \/ (a = y /\ b = x)

HoldChampions(m, p, q, x, y) ==
  LET a == ChampionOf(find(m.participants, p))
      b == ChampionOf(find(m.participants, q))
  IN  (a = x /\ b = y) \/ (a = y /\ b = x)

\* The names that sort() does not put before x
NotBefore(x) == { y \in Names : Rank(x) <= Rank(y) }

EitherOrder(pair, x, y) == pair = <<x, y>> \/ pair = <<y, x>>

\* The ranked matches in which t is a teammate of the player
TogetherWith(t) ==
  SelectSeq(rankedMatches(matchesData),
            LAMBDA m : LET player == find(m.participants, "A")
                           mate == find(m.participants, t)
                       IN  player # NoEntry /\ mate # NoEntry /\ t # "A"
                             /\ mate.teamId = player.teamId)

\* C21: role pairs and champion pairs are grouped by an order-independent key:
\* the matches in which the players hold (x, y) and those in which they hold
\* (y, x) are counted in one bucket, whose games count is their total number,
\* in the duo summary's rolePairs and championPairsTop and in the player
\* summary's pair counts per teammate.
C21_PairsCountedInOneBucket ==
  /\ (duoSummary # NotComputed /\ duoSummary.sampleSize > 0) =>
        LET duo == Duo IN
        \A x \in Names : \A y \in NotBefore(x) :
          LET roleGames == Len(SelectSeq(duo, LAMBDA m : HoldRoles(m, "A", "B", x, y)))
              roleBuckets == { i \in DOMAIN duoSummary.rolePairs :
                                 EitherOrder(duoSummary.rolePairs[i].pair, x, y) }
              champGames == Len(SelectSeq(duo, LAMBDA m : HoldChampions(m, "A", "B", x, y)))
              champBuckets == { i \in DOMAIN duoSummary.championPairsTop :
                                  EitherOrder(duoSummary.championPairsTop[i].pair, x, y) }
          IN  /\ Cardinality(roleBuckets) = (IF roleGames > 0 THEN 1 ELSE 0)
              /\ \A i \in roleBuckets : duoSummary.rolePairs[i].games = roleGames
              /\ Cardinality(champBuckets) <= 1
              /\ (champGames > 0 /\ Len(duoSummary.championPairsTop) < TopChampionPairs)
                    => champBuckets # {}
              /\ \A i \in champBuckets : duoSummary.championPairsTop[i].games = champGames
  /\ teammateStats # NotComputed =>
        \A t \in DOMAIN teammateStats :
          LET together == TogetherWith(t) IN
          \A x \in Names : \A y \in NotBefore(x) :
          LET roleGames == Len(SelectSeq(together, LAMBDA m : HoldRoles(m, "A", t, x, y)))
              roleKeys == { k \in DOMAIN teammateStats[t].rolePairs : EitherOrder(Split(k), x, y) }
              champGames ==
                Len(SelectSeq(together, LAMBDA m : HoldChampions(m, "A", t, x, y)))
              champKeys ==
                { k \in DOMAIN teammateStats[t].championPairs : EitherOrder(Split(k), x, y) }
          IN  /\ Cardinality(roleKeys) = (IF roleGames > 0 THEN 1 ELSE 0)
              /\ \A k \in roleKeys : teammateStats[t].rolePairs[k] = roleGames
              /\ Cardinality(champKeys) = (IF champGames > 0 THEN 1 ELSE 0)
              /\ \A k \in champKeys : teammateStats[t].championPairs[k] = champGames

\* Both summaries were computed from a file in which the players hold a pair
\* of roles in one order in one match and in the other order in another.
C21_Witness ==
  /\ duoSummary # NotComputed /\ duoSummary.sampleSize > 0
  /\ teammateStats # NotComputed
  /\ \E i, j \in DOMAIN Duo :
        /\ RoleOf(find(Duo[i].participants, "A")) = "TOP"
        /\ RoleOf(find(Duo[i].participants, "B")) = "JUNGLE"
        /\ RoleOf(find(Duo[j].participants, "A")) = "JUNGLE"
        /\ RoleOf(find(Duo[j].participants, "B")) = "TOP"

\* The sum of one field over the entries of a list or of an object
RECURSIVE TotalOf(_, _)
TotalOf(entries, field) ==
  IF DOMAIN entries = {} THEN 0
  ELSE LET k == CHOOSE i \in DOMAIN entries : TRUE
       IN  entries[k][field] + TotalOf([i \in DOMAIN entries \ {k} |-> entries[i]], field)

\* C29: every non-empty duo summary is consistent: 0 <= wins <= sampleSize, the
\* games of the queueBreakdown entries sum to sampleSize and their wins to
\* wins, the games of the rolePairs entries sum to sampleSize,
\* sidePreference.blue + sidePreference.red = sampleSize, and championPairsTop
\* has at most 10 entries in the order of non-increasing games.
C29_DuoSummaryConsistent ==
  (duoSummary # NotComputed /\ duoSummary.sampleSize > 0) =>
    /\ 0 <= duoSummary.wins /\ duoSummary.wins <= duoSummary.sampleSize
    /\ TotalOf(duoSummary.queueBreakdown, "games") = duoSummary.sampleSize
    /\ TotalOf(duoSummary.queueBreakdown, "wins") = duoSummary.wins
    /\ TotalOf(duoSummary.rolePairs, "games") = duoSummary.sampleSize
    /\ duoSummary.gameTexture.sidePreference.blue + duoSummary.gameTexture.sidePreference.red
         = duoSummary.sampleSize
    /\ Len(duoSummary.championPairsTop) <= 10
    /\ \A i, j \in DOMAIN duoSummary.championPairsTop :
         i < j => duoSummary.championPairsTop[i].games >= duoSummary.championPairsTop[j].games

\* A summary of a file with more than ten different champion pairs: the list
\* is cut, and its first entry has more games than its last.
C29_Witness ==
  /\ duoSummary # NotComputed /\ duoSummary.sampleSize > 10
  /\ Len(duoSummary.championPairsTop) = 10
  /\ duoSummary.championPairsTop[1].games > duoSummary.championPairsTop[10].games
  /\ Len(Duo) < MaxManyPairs

\* The jobs a duo query for (puuid, region) may use
Usable(puuid, region) ==
  { i \in DOMAIN jobsDir :
      /\ jobsDir[i].status = "complete"
      /\ jobsDir[i].region = toUpperCase(region)
      /\ jobsDir[i].result.summary.puuid = puuid }

\* C22: a duo query for (A, region) uses only a job whose status is complete,
\* whose region matches and whose summary identity is A, and among those one
\* with the greatest completedAt; when no such job exists the query answers 404,
\* not a 500-class failure.
C22_DuoQueryUsesLatestCompleteJob ==
  (duoRes # NotComputed /\ duoRes.status # 400) =>
    LET usable == Usable(duoRes.puuidA, duoRes.region)
    IN  /\ usable = {} => duoRes.status = 404
        /\ duoRes.status # 404 =>
              /\ duoRes.used.id \in usable
              /\ jobsDir[duoRes.used.id] = duoRes.used
              /\ \A i \in usable : jobsDir[i].completedAt <= duoRes.used.completedAt
        /\ duoRes.status = 200 => duoRes.body.sampleSize = duoRes.used.id

\* Of two complete jobs of the player in the region the later one was used,
\* though it is not the first in the listing and a failed job is later still.
C22_Witness ==
  /\ duoRes # NotComputed /\ duoRes.status = 200
  /\ Cardinality(Usable(duoRes.puuidA, duoRes.region)) = 2
  /\ duoRes.used.id > 1
  /\ \E i \in DOMAIN jobsDir : jobsDir[i].status = "error"
  /\ \E i \in DOMAIN jobsDir : i < duoRes.used.id /\ i \in Usable(duoRes.puuidA, duoRes.region)

====
